---- MODULE Spec2Model ----
(***************************************************************************)
(* Verification model of the Stella audio resampling pipeline              *)
(* (LanczosResampler over ConvolutionBuffer).                              *)
(*                                                                         *)
(* Floats are modelled symbolically: a convolution result is the ordered   *)
(* list of its (kernel tap, history sample) products, a kernel tap is the  *)
(* exact rational argument handed to lanczosKernel (numerator over the     *)
(* target rate), and a history sample records which high-pass filter       *)
(* produced it, as its how-many-th output, from which raw PCM value.       *)
(***************************************************************************)
EXTENDS Integers, Sequences, FiniteSets, TLC

\* ------------------------------------------------------------------ bounds
MaxRate == 3              \* sample rates Fs, Ft range over 1..MaxRate
MaxLength == 3            \* fillFragment lengths range over 0..MaxLength
MaxCalls == 2             \* fillFragment calls per run
MaxWideRate == 12         \* sample rates of the wide-ratio runs
MaxWideLength == 1        \* fillFragment lengths of the wide-ratio runs
MaxBufferParameter == 2   \* kernel parameters of the buffer driven on its own
MaxShifts == 5            \* values shifted into that buffer
MaxMirror == 1            \* bus addresses are a 13-bit address plus 0..MaxMirror times 0x2000
MaxEmits == 2             \* emitter calls of the game code in one run
MaxBusAccesses == 2       \* peeks and pokes of one run
MaxPatches == 1           \* patch calls of one run
MaxGameThreads == 2       \* game threads started by reset()
MaxHandoffs == 3          \* hand-overs between the game and the emulator thread
MaxConsoleCalls == 3      \* calls on the console in one run
MaxPaletteCalls == 3      \* palette calls in one run
MaxTiaCalls == 4          \* advances and strobes of the chip in one run
MaxDialogCalls == 4       \* calls on the dialog container in one run
MaxDialogs == 1           \* dialogs added on top of each other
MaxKeyCalls == 2          \* key events in one run
FragmentSizes == {1, 2}   \* myFormatFrom.fragmentSize
KernelParameters == {1, 2}
Fragments == {1, 2}       \* the producer's fragments (non-null pointers)
NullFragment == 0         \* nullptr

\* What the producer callback returns on its successive invocations within one
\* fillFragment call (the pattern repeats): starvation, a steady supply,
\* starvation that ends, a supply that dries up.
CallbackPatterns ==
  { <<NullFragment, NullFragment>>, <<1, 2>>, <<NullFragment, 1>>, <<2, NullFragment>> }

\* ------------------------------------------------------------------ state
VARIABLES
  myFormatFrom,              \* Resampler::Format {sampleRate, fragmentSize, stereo}
  myFormatTo,
  myKernelParameter,
  myPrecomputedKernelCount,
  myKernelSize,
  myPrecomputedKernels,      \* kernel i (0-based) -> Seq of taps
  myCurrentKernelIndex,
  myCurrentFragment,         \* NullFragment or a fragment of Fragments
  myFragmentIndex,
  myIsUnderrun,
  myTimeIndex,
  myBufferL, myBufferR, myBuffer,      \* ConvolutionBuffer or NoBuffer
  myHighPassL, myHighPassR, myHighPass,
  fragment,                  \* the caller's output buffer after the last call
  call,                      \* what the last fillFragment call did
  hist,                      \* counts since construction
  buffer,                    \* a ConvolutionBuffer driven directly, or NoBuffer
  shifted,                   \* every value passed to buffer.shift, oldest first
  bufferCall,                \* what the last call on buffer did
  romHistory,                \* CartStrongArmDev::_romHistory: index -> byte, where written
  stuffHistory,              \* CartStrongArmDev::_stuffHistory: index -> entry, where nonzero
  nextRomIndex, nextStuffIndex, nextJumpTarget, stuffCount,
  lastPeekAddress, lastReadValue,
  runGame, runEmulator,      \* _runGame, _runEmulator
  gamePc,                    \* where each game thread is: "start", "run", "lock", "wait", "notified"
  emuPc,                     \* where the emulator thread is: "run", "entered", "wait", "notified"
  gameLog,                   \* per game thread: its stores and what the emulator did since
  cartCall,                  \* what the last call on the cartridge did
  mySystem,                  \* the chips' state: TIA updates since power-on
  myLeftControl, myRightControl, mySwitches,
  myDisplayFormat, myAutodetectedYstart, myYStartAutodetected,
  frameManager,              \* the frame manager installed in the TIA
  fastscbios,                \* the setting 'fastscbios'
  serializer,                \* the Serializer the caller holds
  consoleCall,               \* what the last call on the console did
  ourUserNTSCPalette, ourUserPALPalette, ourUserSECAMPalette,   \* index -> pixel
  myUserPaletteDefined,
  paletteSetting,            \* the setting 'palette'
  framePalette,              \* the palette installed in the frame buffer
  paletteCall,               \* what the last palette call did
  tiaClock,                  \* colour clocks since console reset
  collisions,                \* the collision latches: the object pairs that are set
  tiaCall,                   \* what the last step of the chip did
  myDialogStack,             \* DialogContainer: the number of dialogs on the stack
  hostTime,                  \* the time last passed to updateTime, in microseconds
  myTime, myLastClick, myCurrentMouseDown, myClickRepeatTime,
  dialogCall,                \* what the last call on the container did
  myCurrentKeyDown, myKeyRepeatTime,
  keyCall,                   \* what the container did with key events so far
  ehState,                   \* EventHandler::state()
  frameRate,                 \* OSystem::frameRate(), in tenths of a frame per second
  uimessages,                \* the setting 'uimessages'
  myMsg,                     \* FrameBuffer::myMsg {enabled, counter, surface}
  myPausedCount,
  soundMute,                 \* whether the sound is muted
  myDisplays, myDesktopSize,
  myWindowedModeList, myFullscreenModeLists,   \* VideoModeList {myModeList, myIdx}
  myCurrentModeList,         \* "none", "windowed" or "fullscreen"
  fullScreen,                \* the video backend's fullScreen()
  videoSettings,             \* the settings 'fullscreen', 'tia.zoom', 'tia.aspect?'
  fbCall,                    \* what the last call on the frame buffer did
  myCurrentFormat, myConsoleTiming,
  displayFormatProperty,     \* myProperties.get(Display_Format)
  formatCall                 \* what the last call that selects a format did

vars == << myFormatFrom, myFormatTo, myKernelParameter, myPrecomputedKernelCount,
           myKernelSize, myPrecomputedKernels, myCurrentKernelIndex,
           myCurrentFragment, myFragmentIndex, myIsUnderrun, myTimeIndex,
           myBufferL, myBufferR, myBuffer, myHighPassL, myHighPassR, myHighPass,
           fragment, call, hist, buffer, shifted, bufferCall,
           romHistory, stuffHistory, nextRomIndex, nextStuffIndex, nextJumpTarget,
           stuffCount, lastPeekAddress, lastReadValue, runGame, runEmulator,
           gamePc, emuPc, gameLog, cartCall,
           mySystem, myLeftControl, myRightControl, mySwitches, myDisplayFormat,
           myAutodetectedYstart, myYStartAutodetected, frameManager, fastscbios,
           serializer, consoleCall,
           ourUserNTSCPalette, ourUserPALPalette, ourUserSECAMPalette,
           myUserPaletteDefined, paletteSetting, framePalette, paletteCall,
           tiaClock, collisions, tiaCall,
           myDialogStack, hostTime, myTime, myLastClick, myCurrentMouseDown,
           myClickRepeatTime, dialogCall, myCurrentKeyDown, myKeyRepeatTime, keyCall,
           ehState, frameRate, uimessages, myMsg, myPausedCount, soundMute, myDisplays,
           myDesktopSize, myWindowedModeList, myFullscreenModeLists, myCurrentModeList,
           fullScreen, videoSettings, fbCall,
           myCurrentFormat, myConsoleTiming, displayFormatProperty, formatCall >>

resamplerVars == << myFormatFrom, myFormatTo, myKernelParameter, myPrecomputedKernelCount,
                    myKernelSize, myPrecomputedKernels, myCurrentKernelIndex,
                    myCurrentFragment, myFragmentIndex, myIsUnderrun, myTimeIndex,
                    myBufferL, myBufferR, myBuffer, myHighPassL, myHighPassR, myHighPass,
                    fragment, call, hist >>

bufferVars == << buffer, shifted, bufferCall >>

cartVars == << romHistory, stuffHistory, nextRomIndex, nextStuffIndex, nextJumpTarget,
               stuffCount, lastPeekAddress, lastReadValue, runGame, runEmulator,
               gamePc, emuPc, gameLog, cartCall >>

consoleVars == << mySystem, myLeftControl, myRightControl, mySwitches, myDisplayFormat,
                  myAutodetectedYstart, myYStartAutodetected, frameManager, fastscbios,
                  serializer, consoleCall >>

paletteVars == << ourUserNTSCPalette, ourUserPALPalette, ourUserSECAMPalette,
                  myUserPaletteDefined, paletteSetting, framePalette, paletteCall >>

tiaVars == << tiaClock, collisions, tiaCall >>

dialogVars == << myDialogStack, hostTime, myTime, myLastClick, myCurrentMouseDown,
                 myClickRepeatTime, dialogCall, myCurrentKeyDown, myKeyRepeatTime,
                 keyCall >>

keyVars == << myCurrentKeyDown, myKeyRepeatTime, keyCall >>

videoVars == << soundMute, myDisplays, myDesktopSize, myWindowedModeList,
               myFullscreenModeLists, myCurrentModeList, fullScreen, videoSettings >>

fbVars == << ehState, frameRate, uimessages, myMsg, myPausedCount, videoVars, fbCall >>

formatVars == << myCurrentFormat, myConsoleTiming, displayFormatProperty, formatCall >>

\* The variables of the subsystems modelled after the console, and for each of
\* them the variables of all the others.
extraVars == << paletteVars, tiaVars, dialogVars, fbVars, formatVars >>
notPalette == << resamplerVars, bufferVars, cartVars, consoleVars, tiaVars, dialogVars,
                fbVars, formatVars >>
notTia == << resamplerVars, bufferVars, cartVars, consoleVars, paletteVars, dialogVars,
            fbVars, formatVars >>
notDialog == << resamplerVars, bufferVars, cartVars, consoleVars, paletteVars, tiaVars,
               fbVars, formatVars >>
notFb == << resamplerVars, bufferVars, cartVars, consoleVars, paletteVars, tiaVars,
           dialogVars, formatVars >>

\* ------------------------------------------------------------------ helpers
Min(a, b) == IF a < b THEN a ELSE b

RECURSIVE GCD(_, _)
GCD(a, b) == IF b = 0 THEN a ELSE GCD(b, a % b)

\* ------------------------------------------------- reducedDenominator
\* for (i = min(n, d); i > 1; --i) if (n % i == 0 && d % i == 0) {...; i = min(n, d);}
\* The result carries the number of loop iterations.
\* The loop with `d /= i` forgotten.
RECURSIVE reducedDenominatorLoop_KeepsD(_, _, _, _)
reducedDenominatorLoop_KeepsD(n, d, i, steps) ==
  IF ~(i > 1) THEN [d |-> d, steps |-> steps]
  ELSE IF (n % i = 0) /\ (d % i = 0)
       THEN reducedDenominatorLoop_KeepsD(n \div i, d, Min(n \div i, d) - 1, steps + 1)
       ELSE reducedDenominatorLoop_KeepsD(n, d, i - 1, steps + 1)

RECURSIVE reducedDenominatorLoop(_, _, _, _)
reducedDenominatorLoop(n, d, i, steps) ==
  IF ~(i > 1) THEN [d |-> d, steps |-> steps]
  ELSE IF (n % i = 0) /\ (d % i = 0)
       THEN reducedDenominatorLoop(n \div i, d \div i,
                                   Min(n \div i, d \div i) - 1, steps + 1)
       ELSE reducedDenominatorLoop(n, d, i - 1, steps + 1)

reducedDenominatorRun(n, d) == reducedDenominatorLoop(n, d, Min(n, d), 0)

reducedDenominator(n, d) == reducedDenominatorRun(n, d).d

\* ------------------------------------------------- ConvolutionBuffer
\* A unique_ptr that was never set (the buffers of the other channel layout).
NoBuffer == [myData |-> << >>, myFirstIndex |-> 0, mySize |-> 0]

\* The float 0 that memset writes into a new buffer's history.
ZeroSample == [ch |-> "zero", n |-> 0, pcm |-> 0]

ConvolutionBuffer(size) ==
  [myData |-> [i \in 1..size |-> ZeroSample], myFirstIndex |-> 0, mySize |-> size]

\* myData[myFirstIndex] = nextValue; myFirstIndex = (myFirstIndex + 1) % mySize
shift_WritesAhead(b, nextValue) ==
  [b EXCEPT !.myData = [b.myData EXCEPT ![((b.myFirstIndex + 1) % b.mySize) + 1] = nextValue],
            !.myFirstIndex = (b.myFirstIndex + 1) % b.mySize]

shift_NoModulus(b, nextValue) ==
  [b EXCEPT !.myData = [b.myData EXCEPT ![b.myFirstIndex + 1] = nextValue],
            !.myFirstIndex = b.myFirstIndex + 1]

shift(b, nextValue) ==
  [b EXCEPT !.myData = [b.myData EXCEPT ![b.myFirstIndex + 1] = nextValue],
            !.myFirstIndex = (b.myFirstIndex + 1) % b.mySize]

\* result += kernel[i] * myData[(myFirstIndex + i) % mySize], i = 0..mySize-1:
\* the products in the order they are summed.
convoluteWith_FromSlotZero(b, kernel) ==
  [i \in 1..b.mySize |-> [tap |-> kernel[i], s |-> b.myData[i]]]

convoluteWith(b, kernel) ==
  [i \in 1..b.mySize |->
     [tap |-> kernel[i], s |-> b.myData[((b.myFirstIndex + (i - 1)) % b.mySize) + 1]]]

\* ------------------------------------------------- HighPass (not in src/)
\* A first-order filter with memory: its output depends on the input and on
\* what it was fed before.  A filter is modelled by the number of samples it
\* has been fed, its output by the filter's name, that number and the input.
HighPassNew == 0

HighPassApply(name, filter, pcm) == [ch |-> name, n |-> filter, pcm |-> pcm]

HighPassAfter(filter) == filter + 1

\* ------------------------------------------------- kernels
\* kernel[j] = lanczosKernel(center - j + myKernelParameter - 1, myKernelParameter)
\*             * CLIPPING_FACTOR,   center = timeIndex / myFormatTo.sampleRate.
\* A tap is the exact argument x = num / den of lanczosKernel.  lanczosKernel(0)
\* is exactly 1 (sinc's x == 0 branch); at a nonzero integer x it is sin(pi x)
\* over pi x, zero in exact arithmetic.
\* The tap with the `- 1` of the centre forgotten.
KernelTap_OffCentre(timeIndex, j, a, sampleRateTo) ==
  [num |-> timeIndex + (a - j) * sampleRateTo, den |-> sampleRateTo]

KernelTap(timeIndex, j, a, sampleRateTo) ==
  [num |-> timeIndex + (a - 1 - j) * sampleRateTo, den |-> sampleRateTo]

\* The time index without its modulus.
KernelTimeIndex_NoModulus(i, rateFrom, rateTo) == i * rateFrom

\* timeIndex of kernel i: 0, then (timeIndex + Fs) % Ft per kernel.
RECURSIVE KernelTimeIndex(_, _, _)
KernelTimeIndex(i, rateFrom, rateTo) ==
  IF i = 0 THEN 0 ELSE (KernelTimeIndex(i - 1, rateFrom, rateTo) + rateFrom) % rateTo

precomputeKernels(count, a, rateFrom, rateTo) ==
  [i \in 0..(count - 1) |->
     [j \in 1..(2 * a) |-> KernelTap(KernelTimeIndex(i, rateFrom, rateTo), j - 1, a, rateTo)]]

IsUnitTap(tap) == tap.num = 0
IsZeroTap(tap) == tap.num # 0 /\ tap.num % tap.den = 0

\* ------------------------------------------------- fragments and outputs
\* Int16 sample number idx of the producer's fragment f.
FragmentData(f, idx) == 100 * f + idx

\* The producer callback's n-th result (n counted from 0) within one call.
NextFragmentCallback(pattern, n) == pattern[(n % Len(pattern)) + 1]

\* What a float of the caller's buffer can hold.
Unwritten  == [kind |-> "unwritten", l |-> << >>, r |-> << >>]
Silence    == [kind |-> "zero", l |-> << >>, r |-> << >>]
Conv(terms) == [kind |-> "conv", l |-> terms, r |-> << >>]
\* (sampleL + sampleR) / 2.f
Average(termsL, termsR) == [kind |-> "avg", l |-> termsL, r |-> termsR]

\* The resampler's mutable fields, with the caller's buffer and the call's
\* bookkeeping, as the record the loops below thread through.
Fields ==
  [ki |-> myCurrentKernelIndex, frag |-> myCurrentFragment, fi |-> myFragmentIndex,
   under |-> myIsUnderrun, ti |-> myTimeIndex,
   bufL |-> myBufferL, bufR |-> myBufferR, buf |-> myBuffer,
   hpL |-> myHighPassL, hpR |-> myHighPassR, hp |-> myHighPass,
   out |-> << >>,      \* the caller's buffer
   cb |-> << >>,       \* the callback's results, in invocation order
   polled |-> FALSE,   \* the callback was invoked at the start of the call
   samples |-> << >>,  \* per output sample: kernel used, time index, samples shifted
   shifted |-> << >>,  \* the history samples shifted in, in order (mono or left)
   frames |-> << >>,   \* the source frames read, in order
   steps |-> 0]        \* loop iterations executed

\* ------------------------------------------------- shiftSamples
\* An exhausted fragment that asks the producer a second time after a null.
OnExhausted_Retry(s, pattern) ==
  LET first == NextFragmentCallback(pattern, Len(s.cb))
      second == NextFragmentCallback(pattern, Len(s.cb) + 1)
      t == [s EXCEPT !.fi = s.fi % myFormatFrom.fragmentSize]
  IN IF first # NullFragment
     THEN [t EXCEPT !.frag = first, !.under = FALSE, !.cb = Append(s.cb, first)]
     ELSE IF second # NullFragment
          THEN [t EXCEPT !.frag = second, !.under = FALSE, !.cb = s.cb \o <<first, second>>]
          ELSE [t EXCEPT !.under = TRUE, !.cb = s.cb \o <<first, second>>]

\* The callback result at an exhausted fragment.
OnExhausted(s, pattern) ==
  LET nextFragment == NextFragmentCallback(pattern, Len(s.cb))
      t == [s EXCEPT !.fi = s.fi % myFormatFrom.fragmentSize,
                     !.cb = Append(s.cb, nextFragment)]
  IN IF nextFragment # NullFragment
     THEN [t EXCEPT !.frag = nextFragment, !.under = FALSE]
     ELSE [t EXCEPT !.under = TRUE]

\* One iteration of the while loop's body.
ShiftOne(s, pattern) ==
  LET pushed ==
        IF myFormatFrom.stereo
        THEN LET vL == HighPassApply("L", s.hpL, FragmentData(s.frag, 2 * s.fi))
                 vR == HighPassApply("R", s.hpR, FragmentData(s.frag, 2 * s.fi + 1))
             IN [s EXCEPT !.bufL = shift(s.bufL, vL), !.hpL = HighPassAfter(s.hpL),
                          !.bufR = shift(s.bufR, vR), !.hpR = HighPassAfter(s.hpR),
                          !.shifted = Append(s.shifted, vL),
                          !.frames = Append(s.frames,
                             [l |-> FragmentData(s.frag, 2 * s.fi),
                              r |-> FragmentData(s.frag, 2 * s.fi + 1)])]
        ELSE LET v == HighPassApply("M", s.hp, FragmentData(s.frag, s.fi))
             IN [s EXCEPT !.buf = shift(s.buf, v), !.hp = HighPassAfter(s.hp),
                          !.shifted = Append(s.shifted, v),
                          !.frames = Append(s.frames,
                             [l |-> FragmentData(s.frag, s.fi),
                              r |-> FragmentData(s.frag, s.fi)])]
      moved == [pushed EXCEPT !.fi = pushed.fi + 1, !.steps = pushed.steps + 1]
  IN IF moved.fi >= myFormatFrom.fragmentSize THEN OnExhausted(moved, pattern) ELSE moved

RECURSIVE shiftSamples(_, _, _)
shiftSamples(s, samplesToShift, pattern) ==
  IF samplesToShift > 0
  THEN shiftSamples(ShiftOne(s, pattern), samplesToShift - 1, pattern)
  ELSE s

\* ------------------------------------------------- fillFragment
\* The poll with `myFragmentIndex = 0` forgotten.
PollOnUnderrun_KeepsIndex(s, pattern) ==
  IF s.under
  THEN LET nextFragment == NextFragmentCallback(pattern, Len(s.cb))
           t == [s EXCEPT !.cb = Append(s.cb, nextFragment), !.polled = TRUE]
       IN IF nextFragment # NullFragment
          THEN [t EXCEPT !.frag = nextFragment, !.under = FALSE]
          ELSE t
  ELSE s

\* if (myIsUnderrun) { nextFragment = myNextFragmentCallback(); if (nextFragment) ... }
PollOnUnderrun(s, pattern) ==
  IF s.under
  THEN LET nextFragment == NextFragmentCallback(pattern, Len(s.cb))
           t == [s EXCEPT !.cb = Append(s.cb, nextFragment), !.polled = TRUE]
       IN IF nextFragment # NullFragment
          THEN [t EXCEPT !.frag = nextFragment, !.fi = 0, !.under = FALSE]
          ELSE t
  ELSE s

\* The channel mapping with a down-mix that takes the left channel only.
WriteSample_LeftOnly(s, i, kernel) ==
  IF myFormatFrom.stereo
  THEN LET sampleL == convoluteWith(s.bufL, kernel)
           sampleR == convoluteWith(s.bufR, kernel)
       IN IF myFormatTo.stereo
          THEN [s.out EXCEPT ![2 * i + 1] = Conv(sampleL), ![2 * i + 2] = Conv(sampleR)]
          ELSE [s.out EXCEPT ![i + 1] = Conv(sampleL)]
  ELSE LET sample == convoluteWith(s.buf, kernel)
       IN IF myFormatTo.stereo
          THEN [s.out EXCEPT ![2 * i + 1] = Conv(sample), ![2 * i + 2] = Conv(sample)]
          ELSE [s.out EXCEPT ![i + 1] = Conv(sample)]

\* The writes of output sample i into the caller's buffer (0-based positions).
WriteSample(s, i, kernel) ==
  IF myFormatFrom.stereo
  THEN LET sampleL == convoluteWith(s.bufL, kernel)
           sampleR == convoluteWith(s.bufR, kernel)
       IN IF myFormatTo.stereo
          THEN [s.out EXCEPT ![2 * i + 1] = Conv(sampleL), ![2 * i + 2] = Conv(sampleR)]
          ELSE [s.out EXCEPT ![i + 1] = Average(sampleL, sampleR)]
  ELSE LET sample == convoluteWith(s.buf, kernel)
       IN IF myFormatTo.stereo
          THEN [s.out EXCEPT ![2 * i + 1] = Conv(sample), ![2 * i + 2] = Conv(sample)]
          ELSE [s.out EXCEPT ![i + 1] = Conv(sample)]

\* The loop body that picks the kernel after advancing the kernel index.
OutputOne_KernelAfterAdvance(s, i, pattern) ==
  LET kernel == myPrecomputedKernels[(s.ki + 1) % myPrecomputedKernelCount]
      timeIndex == s.ti + myFormatFrom.sampleRate
      samplesToShift == timeIndex \div myFormatTo.sampleRate
      written == [s EXCEPT !.out = WriteSample(s, i, kernel),
                           !.ki = (s.ki + 1) % myPrecomputedKernelCount,
                           !.ti = timeIndex,
                           !.steps = s.steps + 1,
                           !.samples = Append(s.samples,
                              [kernel |-> s.ki, time |-> s.ti, shift |-> samplesToShift])]
  IN IF samplesToShift = 0
     THEN written
     ELSE shiftSamples([written EXCEPT !.ti = timeIndex % myFormatTo.sampleRate],
                       samplesToShift, pattern)

\* The loop body that subtracts Ft once instead of taking the modulus.
OutputOne_SubtractsOnce(s, i, pattern) ==
  LET kernel == myPrecomputedKernels[s.ki]
      timeIndex == s.ti + myFormatFrom.sampleRate
      samplesToShift == timeIndex \div myFormatTo.sampleRate
      written == [s EXCEPT !.out = WriteSample(s, i, kernel),
                           !.ki = (s.ki + 1) % myPrecomputedKernelCount,
                           !.ti = timeIndex,
                           !.steps = s.steps + 1,
                           !.samples = Append(s.samples,
                              [kernel |-> s.ki, time |-> s.ti, shift |-> samplesToShift])]
  IN IF samplesToShift = 0
     THEN written
     ELSE shiftSamples([written EXCEPT !.ti = timeIndex - myFormatTo.sampleRate],
                       samplesToShift, pattern)

\* The body of the for loop for output sample i.
OutputOne(s, i, pattern) ==
  LET kernel == myPrecomputedKernels[s.ki]
      timeIndex == s.ti + myFormatFrom.sampleRate
      samplesToShift == timeIndex \div myFormatTo.sampleRate
      written == [s EXCEPT !.out = WriteSample(s, i, kernel),
                           !.ki = (s.ki + 1) % myPrecomputedKernelCount,
                           !.ti = timeIndex,
                           !.steps = s.steps + 1,
                           !.samples = Append(s.samples,
                              [kernel |-> s.ki, time |-> s.ti, shift |-> samplesToShift])]
  IN IF samplesToShift = 0
     THEN written
     ELSE shiftSamples([written EXCEPT !.ti = timeIndex % myFormatTo.sampleRate],
                       samplesToShift, pattern)

RECURSIVE OutputLoop(_, _, _, _)
OutputLoop(s, i, outputSamples, pattern) ==
  IF i < outputSamples
  THEN OutputLoop(OutputOne(s, i, pattern), i + 1, outputSamples, pattern)
  ELSE s

\* fillFragment with the `return` after the memset forgotten.
fillFragment_FallsThrough(s0, length, pattern) ==
  LET s == PollOnUnderrun([s0 EXCEPT !.out = [p \in 1..length |-> Unwritten]], pattern)
      outputSamples == IF myFormatTo.stereo THEN length \div 2 ELSE length
  IN OutputLoop(IF s.frag = NullFragment
                THEN [s EXCEPT !.out = [p \in 1..length |-> Silence]]
                ELSE s,
                0, outputSamples, pattern)

fillFragment(s0, length, pattern) ==
  LET s == PollOnUnderrun([s0 EXCEPT !.out = [p \in 1..length |-> Unwritten]], pattern)
  IN IF s.frag = NullFragment
     THEN [s EXCEPT !.out = [p \in 1..length |-> Silence]]
     ELSE LET outputSamples == IF myFormatTo.stereo THEN length \div 2 ELSE length
          IN OutputLoop(s, 0, outputSamples, pattern)

\* ------------------------------------------------- construction
\* LanczosResampler::LanczosResampler
Construct(formatFrom, formatTo, kernelParameter) ==
  /\ myFormatFrom = formatFrom
  /\ myFormatTo = formatTo
  /\ myPrecomputedKernelCount = reducedDenominator(formatFrom.sampleRate, formatTo.sampleRate)
  /\ myKernelSize = 2 * kernelParameter
  /\ myCurrentKernelIndex = 0
  /\ myKernelParameter = kernelParameter
  /\ myCurrentFragment = NullFragment
  /\ myFragmentIndex = 0
  /\ myIsUnderrun = TRUE
  /\ myHighPassL = HighPassNew
  /\ myHighPassR = HighPassNew
  /\ myHighPass = HighPassNew
  /\ myTimeIndex = 0
  /\ myBufferL = IF formatFrom.stereo THEN ConvolutionBuffer(2 * kernelParameter) ELSE NoBuffer
  /\ myBufferR = IF formatFrom.stereo THEN ConvolutionBuffer(2 * kernelParameter) ELSE NoBuffer
  /\ myBuffer = IF formatFrom.stereo THEN NoBuffer ELSE ConvolutionBuffer(2 * kernelParameter)
  /\ myPrecomputedKernels =
       precomputeKernels(reducedDenominator(formatFrom.sampleRate, formatTo.sampleRate),
                         kernelParameter, formatFrom.sampleRate, formatTo.sampleRate)

NoCall ==
  [length |-> 0, cb |-> << >>, polled |-> FALSE, samples |-> << >>, shifted |-> << >>,
   steps |-> 0, underrunBefore |-> TRUE, fragmentBefore |-> NullFragment,
   indexBefore |-> 0, timeBefore |-> 0]

Constructed(rates) ==
  /\ \E rateFrom \in rates, rateTo \in rates, fragmentSize \in FragmentSizes,
        stereoFrom \in BOOLEAN, stereoTo \in BOOLEAN, kernelParameter \in KernelParameters :
       Construct([sampleRate |-> rateFrom, fragmentSize |-> fragmentSize, stereo |-> stereoFrom],
                 [sampleRate |-> rateTo, fragmentSize |-> fragmentSize, stereo |-> stereoTo],
                 kernelParameter)
  /\ fragment = << >>
  /\ call = NoCall
  /\ hist = [calls |-> 0, outputs |-> 0, shifts |-> 0, fragments |-> 0, input |-> << >>]

\* ------------------------------------------------- the operation
\* One call fillFragment(fragment, length); the producer answers by `pattern`.
FillFragment(length, pattern) ==
  /\ hist.calls < MaxCalls
  /\ \E s \in {fillFragment(Fields, length, pattern)} :
        /\ myCurrentKernelIndex' = s.ki
        /\ myCurrentFragment' = s.frag
        /\ myFragmentIndex' = s.fi
        /\ myIsUnderrun' = s.under
        /\ myTimeIndex' = s.ti
        /\ myBufferL' = s.bufL
        /\ myBufferR' = s.bufR
        /\ myBuffer' = s.buf
        /\ myHighPassL' = s.hpL
        /\ myHighPassR' = s.hpR
        /\ myHighPass' = s.hp
        /\ fragment' = s.out
        /\ call' = [length |-> length, cb |-> s.cb, polled |-> s.polled,
                    samples |-> s.samples, shifted |-> s.shifted, steps |-> s.steps,
                    underrunBefore |-> myIsUnderrun, fragmentBefore |-> myCurrentFragment,
                    indexBefore |-> myFragmentIndex, timeBefore |-> myTimeIndex]
        /\ hist' = [calls |-> hist.calls + 1,
                    outputs |-> hist.outputs + Len(s.samples),
                    shifts |-> hist.shifts + Len(s.shifted),
                    input |-> hist.input \o s.frames,
                    fragments |-> hist.fragments
                                  + Cardinality({n \in 1..Len(s.cb) : s.cb[n] # NullFragment})]
  /\ UNCHANGED << myFormatFrom, myFormatTo, myKernelParameter, myPrecomputedKernelCount,
                  myKernelSize, myPrecomputedKernels >>

\* No ConvolutionBuffer is driven from outside the resampler.
NoBufferCall ==
  [op |-> "none", size |-> 0, index |-> {}, kernel |-> << >>, result |-> << >>,
   before |-> NoBuffer]

BufferAbsent ==
  /\ buffer = NoBuffer
  /\ shifted = << >>
  /\ bufferCall = NoBufferCall

\* No cartridge is attached: its fields and the file's statics hold nothing.
NoCart ==
  [rom |-> << >>, stuff |-> << >>, nextRomIndex |-> 0, nextStuffIndex |-> 0,
   nextJumpTarget |-> 0, stuffCount |-> 0, lastPeekAddress |-> 0, lastReadValue |-> 0]

NoCartCall ==
  [op |-> "none", thread |-> 0, address |-> 0, given |-> 0, value |-> 0, target |-> "none",
   forwarded |-> 0, result |-> 0, stuffed |-> FALSE, before |-> NoCart, alone |-> TRUE,
   wrote |-> {}, stuffWrote |-> {}, expected |-> {}, rsgSeen |-> TRUE, handoffSeen |-> TRUE,
   accesses |-> 0, emits |-> 0, handoffs |-> 0, patches |-> 0]

\* What is remembered of a game thread: whether a RunStrongArmGame call has
\* started since its last hand-off blocked, the stores it emitted since its
\* last hand-off, the stores that hand-off published and how many of them the
\* emulator has executed.
NewGameLog == [rsg |-> FALSE, written |-> << >>, published |-> << >>, executed |-> 0]

CartAbsent ==
  /\ romHistory = << >> /\ stuffHistory = << >>
  /\ nextRomIndex = 0 /\ nextStuffIndex = 0 /\ nextJumpTarget = 0 /\ stuffCount = 0
  /\ lastPeekAddress = 0 /\ lastReadValue = 0
  /\ runGame = FALSE /\ runEmulator = FALSE
  /\ gamePc = << >> /\ emuPc = "none"
  /\ gameLog = << >>
  /\ cartCall = NoCartCall

\* No console is constructed.
NoEmulated ==
  [system |-> 0, left |-> 0, right |-> 0, switches |-> 0, cart |-> NoCart]

NoConsoleCall ==
  [op |-> "none", result |-> TRUE, given |-> << >>, updates |-> 0, managers |-> {},
   detected |-> "none", classified |-> 0, fastscbiosBefore |-> FALSE,
   before |-> NoEmulated, calls |-> 0]

NoSerializer == [data |-> << >>, at |-> NoEmulated]

ConsoleAbsent ==
  /\ mySystem = 0 /\ myLeftControl = 0 /\ myRightControl = 0 /\ mySwitches = 0
  /\ myDisplayFormat = "" /\ myAutodetectedYstart = 0 /\ myYStartAutodetected = FALSE
  /\ frameManager = "none" /\ fastscbios = FALSE
  /\ serializer = NoSerializer
  /\ consoleCall = NoConsoleCall

\* No palette is loaded, chosen or installed.
NoUserPalette == [ntsc |-> << >>, pal |-> << >>, secam |-> << >>, defined |-> FALSE]

NoPaletteCall ==
  [op |-> "none", given |-> "", before |-> NoUserPalette, settingBefore |-> "", calls |-> 0]

PaletteAbsent ==
  /\ ourUserNTSCPalette = << >> /\ ourUserPALPalette = << >> /\ ourUserSECAMPalette = << >>
  /\ myUserPaletteDefined = FALSE
  /\ paletteSetting = ""
  /\ framePalette = "none"
  /\ paletteCall = NoPaletteCall

\* The chip is not clocked.
NoTiaCall == [op |-> "none", active |-> {}, before |-> {}, frames |-> 0, calls |-> 0]

TiaAbsent ==
  /\ tiaClock = 0
  /\ collisions = {}
  /\ tiaCall = NoTiaCall

NoDialogCall ==
  [op |-> "none", x |-> 0, y |-> 0, time |-> 0, reported |-> 0,
   before |-> [x |-> 0, y |-> 0, time |-> 0, count |-> 0],
   prev |-> [count |-> 0, time |-> 0, x |-> 0, y |-> 0],
   last |-> [count |-> 0, time |-> 0, x |-> 0, y |-> 0],
   resetBetween |-> FALSE, resetSince |-> FALSE, calls |-> 0]

Keys == {"A", "B"}             \* StellaKey values other than KBDK_UNKNOWN
NoKeyDown == [key |-> "UNKNOWN", mod |-> "NONE"]
NoKeyCall ==
  [op |-> "none", key |-> "UNKNOWN", time |-> 0,
   was |-> [pressed |-> FALSE, time |-> 0, released |-> FALSE, lastRepeat |-> -1],
   keys |-> [key \in Keys |->
               [pressed |-> FALSE, time |-> 0, released |-> FALSE, lastRepeat |-> -1]],
   calls |-> 0]

DialogAbsent ==
  /\ myDialogStack = 0 /\ hostTime = 0 /\ myTime = 0
  /\ myLastClick = [x |-> 0, y |-> 0, time |-> 0, count |-> 0]
  /\ myCurrentMouseDown = [x |-> 0, y |-> 0, b |-> "NONE"]
  /\ myClickRepeatTime = 0
  /\ dialogCall = NoDialogCall
  /\ myCurrentKeyDown = NoKeyDown /\ myKeyRepeatTime = 0 /\ keyCall = NoKeyCall

NoMsg == [enabled |-> FALSE, counter |-> -1, surface |-> FALSE]
NewVideoModeList == [myModeList |-> << >>, myIdx |-> -1]
NoRead == [list |-> "none", size |-> 0, idx |-> 0]
NoMove == [direction |-> 0, size |-> 0, from |-> 0, to |-> 0]
NoFbCall ==
  [op |-> "none", state |-> "NONE", force |-> FALSE, armed |-> FALSE, forced |-> FALSE,
   shown |-> FALSE, drew |-> FALSE, rendered |-> FALSE, before |-> NoMsg,
   mute |-> FALSE, read |-> NoRead, moved |-> NoMove, status |-> "none", calls |-> 0]

FbAbsent ==
  /\ ehState = "NONE" /\ frameRate = 0 /\ uimessages = FALSE
  /\ myMsg = NoMsg /\ myPausedCount = 0
  /\ soundMute = FALSE /\ myDisplays = << >> /\ myDesktopSize = << 0, 0 >>
  /\ myWindowedModeList = NewVideoModeList /\ myFullscreenModeLists = << >>
  /\ myCurrentModeList = "none" /\ fullScreen = FALSE
  /\ videoSettings = [fullscreen |-> FALSE, zoom |-> 0, aspect |-> 0]
  /\ fbCall = NoFbCall

NoFormatCall ==
  [op |-> "none", direction |-> 0, given |-> 0,
   before |-> [current |-> 0, timing |-> "ntsc", property |-> "", format |-> ""],
   calls |-> 0]

FormatAbsent ==
  /\ myCurrentFormat = 0 /\ myConsoleTiming = "ntsc" /\ displayFormatProperty = ""
  /\ formatCall = NoFormatCall

ExtraAbsent == PaletteAbsent /\ TiaAbsent /\ DialogAbsent /\ FbAbsent /\ FormatAbsent

Next ==
  /\ \E length \in 0..MaxLength, pattern \in CallbackPatterns : FillFragment(length, pattern)
  /\ UNCHANGED << bufferVars, cartVars, consoleVars, extraVars >>

Init == Constructed(1..MaxRate) /\ BufferAbsent /\ CartAbsent /\ ConsoleAbsent /\ ExtraAbsent

Spec == Init /\ [][Next]_vars

\* The same resampler over a wider range of sample-rate ratios, mono to mono.
InitWide ==
  /\ Constructed(1..MaxWideRate)
  /\ ~myFormatFrom.stereo /\ ~myFormatTo.stereo
  /\ myFormatFrom.fragmentSize = 1 /\ myKernelParameter = 1
  /\ BufferAbsent /\ CartAbsent /\ ConsoleAbsent /\ ExtraAbsent

NextWide ==
  /\ \E length \in 0..MaxWideLength, pattern \in CallbackPatterns : FillFragment(length, pattern)
  /\ UNCHANGED << bufferVars, cartVars, consoleVars, extraVars >>

SpecWide == InitWide /\ [][NextWide]_vars

\* ------------------------------------------- a ConvolutionBuffer on its own
\* No resampler is constructed: its fields hold nothing.
ResamplerAbsent ==
  /\ myFormatFrom = [sampleRate |-> 0, fragmentSize |-> 0, stereo |-> FALSE]
  /\ myFormatTo = [sampleRate |-> 0, fragmentSize |-> 0, stereo |-> FALSE]
  /\ myKernelParameter = 0
  /\ myPrecomputedKernelCount = 0
  /\ myKernelSize = 0
  /\ myPrecomputedKernels = << >>
  /\ myCurrentKernelIndex = 0
  /\ myCurrentFragment = NullFragment
  /\ myFragmentIndex = 0
  /\ myIsUnderrun = TRUE
  /\ myTimeIndex = 0
  /\ myBufferL = NoBuffer /\ myBufferR = NoBuffer /\ myBuffer = NoBuffer
  /\ myHighPassL = HighPassNew /\ myHighPassR = HighPassNew /\ myHighPass = HighPassNew
  /\ fragment = << >>
  /\ call = NoCall
  /\ hist = [calls |-> 0, outputs |-> 0, shifts |-> 0, fragments |-> 0, input |-> << >>]

\* The floats a caller shifts in: the k-th value shifted carries k, so that no
\* two of them are equal.
BufferValue(k, pcm) == [ch |-> "in", n |-> k, pcm |-> pcm]

\* The kernels a caller convolutes with: the precomputed Lanczos kernels of a
\* two-phase resampler with this kernel parameter.
BufferKernels(size) ==
  {precomputeKernels(2, size \div 2, 1, 2)[k] : k \in 0..1}

\* ConvolutionBuffer(2 * kernelParameter), as the resampler constructs it.
BufferConstructed ==
  \E kernelParameter \in 1..MaxBufferParameter :
     /\ buffer = ConvolutionBuffer(2 * kernelParameter)
     /\ shifted = << >>
     /\ bufferCall = [NoBufferCall EXCEPT !.size = 2 * kernelParameter]

\* buffer.shift(nextValue)
Shift(pcm) ==
  /\ Len(shifted) < MaxShifts
  /\ buffer' = shift(buffer, BufferValue(Len(shifted), pcm))
  /\ shifted' = Append(shifted, BufferValue(Len(shifted), pcm))
  /\ bufferCall' = [bufferCall EXCEPT !.op = "shift", !.index = {buffer.myFirstIndex},
                                       !.kernel = << >>, !.result = << >>,
                                       !.before = buffer]
  /\ UNCHANGED << resamplerVars, cartVars, consoleVars, extraVars >>

\* buffer.convoluteWith(kernel): a const method
ConvoluteWith(kernel) ==
  /\ bufferCall' = [bufferCall EXCEPT
                      !.op = "convoluteWith",
                      !.index = {(buffer.myFirstIndex + i) % buffer.mySize :
                                   i \in 0..(buffer.mySize - 1)},
                      !.kernel = kernel,
                      !.result = convoluteWith(buffer, kernel),
                      !.before = buffer]
  /\ UNCHANGED << buffer, shifted >>
  /\ UNCHANGED << resamplerVars, cartVars, consoleVars, extraVars >>

InitBuffer ==
  BufferConstructed /\ ResamplerAbsent /\ CartAbsent /\ ConsoleAbsent /\ ExtraAbsent

NextBuffer ==
  \/ \E pcm \in Fragments : Shift(pcm)
  \/ \E kernel \in BufferKernels(buffer.mySize) : ConvoluteWith(kernel)

SpecBuffer == InitBuffer /\ [][NextBuffer]_vars

\* --------------------------------------------------- CartStrongArmDev
\* a & b and a | b on unsigned integers.
RECURSIVE BitAnd(_, _)
BitAnd(a, b) ==
  IF a = 0 \/ b = 0 THEN 0
  ELSE (a % 2) * (b % 2) + 2 * BitAnd(a \div 2, b \div 2)

RECURSIVE BitOr(_, _)
BitOr(a, b) ==
  IF a = 0 THEN b
  ELSE IF b = 0 THEN a
  ELSE (IF (a % 2) + (b % 2) > 0 THEN 1 ELSE 0) + 2 * BitOr(a \div 2, b \div 2)

UInt8 == 256
UInt16 == 65536

\* The masks of peek and poke.
AddressMask == 8191      \* 0x1FFF
SelectMask == 4224       \* 0x1080: A12 and A7
RiotSelect == 128        \* 0x0080
RomMask == 4095          \* 0x0fff
RomSelect == 4096        \* 0x1000
HistorySize == 4096      \* entries of _romHistory and of _stuffHistory
ResetVector == 4092      \* 0xffc

\* 6507 opcodes the emitters write.
OpJmp == 76              \* 0x4c
OpLdaAbs == 173          \* 0xad
OpJsr == 32              \* 0x20
OpStaZp == 133           \* 0x85
OpNop == 234             \* 0xea

\* The 13-bit addresses put on the bus, one per combination of A12 and A7
\* (TIA 0x0F7F, RIOT 0x84, ROM 0x1001 and 0x1080), each seen through its
\* mirrors above 0x1FFF.
LowAddresses == {3967, 132, 4097, 4224}
Addresses == {low + mirror * (AddressMask + 1) : low \in LowAddresses, mirror \in 0..MaxMirror}
PokeValues == {5}
ChipValues == {64}             \* what TIA::peek or M6532::peek returns
UninitBytes == {0, 255}        \* what an unwritten byte of _romHistory may hold
ZeroPages == {2}               \* the ZP operand of vcsWrite3
StuffData == {7}               \* the data operand of vcsWrite3

\* The cartridge's array members and the file's statics, as one value.
CartFields ==
  [rom |-> romHistory, stuff |-> stuffHistory, nextRomIndex |-> nextRomIndex,
   nextStuffIndex |-> nextStuffIndex, nextJumpTarget |-> nextJumpTarget,
   stuffCount |-> stuffCount, lastPeekAddress |-> lastPeekAddress,
   lastReadValue |-> lastReadValue]

\* _romHistory[i]; a byte never written is indeterminate (`uninit`).
RomByte(c, i, uninit) == IF i \in DOMAIN c.rom THEN c.rom[i] ELSE uninit

\* _romHistory[i] = byte
RomWrite(rom, i, byte) ==
  [k \in (DOMAIN rom) \cup {i} |-> IF k = i THEN byte ELSE rom[k]]

\* _stuffHistory[i]; the constructor zeroes every entry
StuffEntry(c, i) == IF i \in DOMAIN c.stuff THEN c.stuff[i] ELSE 0

\* _romHistory[nextRomIndex++] = byte, for each byte in turn
RECURSIVE EmitBytes(_, _)
EmitBytes(c, bytes) ==
  IF bytes = << >> THEN c
  ELSE EmitBytes([c EXCEPT !.rom = RomWrite(c.rom, c.nextRomIndex, Head(bytes)),
                           !.nextRomIndex = (c.nextRomIndex + 1) % UInt16],
                 Tail(bytes))

peek_MasksTwelveBits(c, address, chipValue, uninit) ==
  LET a == BitAnd(address, RomMask)
      target == IF BitAnd(a, SelectMask) = 0 THEN "TIA"
                ELSE IF BitAnd(a, SelectMask) = RiotSelect THEN "RIOT"
                ELSE "ROM"
      value == IF target = "ROM" THEN RomByte(c, BitAnd(a, RomMask), uninit) ELSE chipValue
  IN  [c |-> [c EXCEPT !.lastPeekAddress = a, !.lastReadValue = value],
       target |-> target, forwarded |-> a, value |-> value, result |-> value,
       stuffed |-> FALSE]

\* CartStrongArmDev::peek(address)
peek(c, address, chipValue, uninit) ==
  LET a == BitAnd(address, AddressMask)
      target == IF BitAnd(a, SelectMask) = 0 THEN "TIA"
                ELSE IF BitAnd(a, SelectMask) = RiotSelect THEN "RIOT"
                ELSE "ROM"
      value == IF target = "ROM" THEN RomByte(c, BitAnd(a, RomMask), uninit) ELSE chipValue
  IN  [c |-> [c EXCEPT !.lastPeekAddress = a, !.lastReadValue = value],
       target |-> target, forwarded |-> a, value |-> value, result |-> value,
       stuffed |-> FALSE]

\* CartStrongArmDev::poke(address, value)
poke(c, address, value) ==
  LET a == BitAnd(address, AddressMask)
      stuffed == /\ c.nextStuffIndex < c.stuffCount
                 /\ StuffEntry(c, c.nextStuffIndex) \div UInt16 = c.lastPeekAddress
      v == IF stuffed THEN StuffEntry(c, c.nextStuffIndex) % UInt8 ELSE value
      target == IF BitAnd(a, SelectMask) = 0 THEN "TIA"
                ELSE IF BitAnd(a, SelectMask) = RiotSelect THEN "RIOT"
                ELSE "none"
  IN  [c |-> IF stuffed
               THEN [c EXCEPT !.nextStuffIndex = (c.nextStuffIndex + 1) % UInt16]
               ELSE c,
       target |-> target, forwarded |-> a, value |-> v, result |-> FALSE,
       stuffed |-> stuffed]

patch_IgnoresSelect(c, address, value) ==
  [c |-> [c EXCEPT !.rom = RomWrite(c.rom, BitAnd(address, RomMask), value)],
   target |-> "ROM", forwarded |-> BitAnd(address, RomMask), value |-> value,
   result |-> TRUE, stuffed |-> FALSE]

\* CartStrongArmDev::patch(address, value)
patch(c, address, value) ==
  IF BitAnd(address, RomSelect) = RomSelect
    THEN [c |-> [c EXCEPT !.rom = RomWrite(c.rom, BitAnd(address, RomMask), value)],
          target |-> "ROM", forwarded |-> BitAnd(address, RomMask), value |-> value,
          result |-> TRUE, stuffed |-> FALSE]
    ELSE [c |-> c, target |-> "none", forwarded |-> 0, value |-> value,
          result |-> FALSE, stuffed |-> FALSE]

\* void vcsWrite3(ZP, data)
vcsWrite3(c, ZP, data) ==
  LET c1 == EmitBytes(c, << OpStaZp >>)
      c2 == [c1 EXCEPT
               !.stuff = RomWrite(c1.stuff, c1.nextStuffIndex,
                                  (BitOr(c1.nextRomIndex, RomSelect) % UInt16) * UInt16 + data),
               !.nextStuffIndex = (c1.nextStuffIndex + 1) % UInt16]
  IN  EmitBytes(c2, << ZP >>)

\* void vcsNop2()
vcsNop2(c) == EmitBytes(c, << OpNop >>)

\* void vcsJmp3(), up to its wait on the condition variable
vcsJmp3(c) ==
  LET c1 == EmitBytes(c, << OpJmp, 0, 16 >>)
  IN  [c1 EXCEPT !.nextRomIndex = 0, !.nextJumpTarget = RomSelect,
                 !.stuffCount = c1.nextStuffIndex, !.nextStuffIndex = 0]

\* unsigned char vcsRead4(address), up to its wait on the condition variable
vcsRead4(c, address) ==
  LET c1 == EmitBytes(c, << OpLdaAbs, BitAnd(address, UInt8 - 1), address \div UInt8 >>)
  IN  [c1 EXCEPT !.stuffCount = c1.nextStuffIndex, !.nextStuffIndex = 0,
                 !.nextJumpTarget = BitOr(RomSelect, c1.nextRomIndex) % UInt16]

\* void vcsJsr6(target), up to its wait on the condition variable
vcsJsr6(c, target) ==
  LET c1 == EmitBytes(c, << OpJsr, BitAnd(target, UInt8 - 1), target \div UInt8 >>)
  IN  [c1 EXCEPT !.nextJumpTarget = target,
                 !.stuffCount = c1.nextStuffIndex, !.nextStuffIndex = 0]

\* void EndOverblank(), up to its wait on the condition variable
EndOverblankEmit(c) ==
  [c EXCEPT !.rom = RomWrite(c.rom, RomMask, 0), !.nextRomIndex = 0,
            !.nextJumpTarget = RomSelect,
            !.stuffCount = c.nextStuffIndex, !.nextStuffIndex = 0]

\* uInt16 RunStrongArmGame(), before it takes the mutex
RunStrongArmGameEnter(c) ==
  [c EXCEPT !.nextStuffIndex = 0, !.nextRomIndex = BitAnd(c.nextJumpTarget, RomMask)]

\* The statements of the constructor, then reset(): the first game thread is
\* created and has not run yet; the emulator thread goes on.
CartConstructed ==
  /\ romHistory = RomWrite(RomWrite(<< >>, 4092, 0), 4093, 16)
  /\ stuffHistory = << >>
  /\ nextRomIndex = 0 /\ nextStuffIndex = 0 /\ nextJumpTarget = 0 /\ stuffCount = 0
  /\ lastPeekAddress = 0 /\ lastReadValue = UInt8 - 1
  /\ runGame = FALSE /\ runEmulator = FALSE
  /\ gamePc = << "start" >> /\ emuPc = "run"
  /\ gameLog = << NewGameLog >>
  /\ cartCall = NoCartCall

\* The threads: 0 is the emulator thread, g the g-th game thread reset() started.
GameThreads == 1..MaxGameThreads
Threads == 0..MaxGameThreads

\* Whether a thread sits inside cv.wait.
Blocked(pc) == pc \in {"wait", "notified"}

\* Writes the cartridge value r.c back and records what the call of `thread`
\* (0: the emulator thread, g: the g-th game thread) did.
CartStep(op, thread, address, value, r, kind) ==
  /\ romHistory' = r.c.rom
  /\ stuffHistory' = r.c.stuff
  /\ nextRomIndex' = r.c.nextRomIndex
  /\ nextStuffIndex' = r.c.nextStuffIndex
  /\ nextJumpTarget' = r.c.nextJumpTarget
  /\ stuffCount' = r.c.stuffCount
  /\ lastPeekAddress' = r.c.lastPeekAddress
  /\ lastReadValue' = r.c.lastReadValue
  /\ cartCall' = [cartCall EXCEPT
                    !.op = op, !.thread = thread, !.address = address, !.given = value,
                    !.value = r.value, !.target = r.target, !.forwarded = r.forwarded,
                    !.result = r.result, !.stuffed = r.stuffed, !.before = CartFields,
                    !.alone = IF thread = 0
                                THEN \A g \in DOMAIN gamePc : Blocked(gamePc[g])
                                ELSE Blocked(emuPc),
                    !.wrote = r.wrote, !.stuffWrote = r.stuffWrote,
                    !.expected = r.expected,
                    !.accesses = @ + (IF kind = "access" THEN 1 ELSE 0),
                    !.emits = @ + (IF kind = "emit" THEN 1 ELSE 0),
                    !.handoffs = @ + (IF kind = "handoff" THEN 1 ELSE 0),
                    !.patches = @ + (IF kind = "patch" THEN 1 ELSE 0)]

\* What a call of the emulator thread adds to the result of peek, poke or patch.
OnBus(r, expected) ==
  [c |-> r.c, target |-> r.target, forwarded |-> r.forwarded, value |-> r.value,
   result |-> r.result, stuffed |-> r.stuffed, wrote |-> {}, stuffWrote |-> {},
   expected |-> expected]

\* The emulator thread reads the bus.
Peek(address) ==
  /\ UNCHANGED << resamplerVars, bufferVars, consoleVars, extraVars >>
  /\ emuPc = "run"
  /\ cartCall.accesses < MaxBusAccesses
  /\ \E chipValue \in ChipValues :
     \E uninit \in (IF BitAnd(address, RomSelect) = RomSelect
                       /\ BitAnd(address, RomMask) \notin DOMAIN romHistory
                    THEN UninitBytes ELSE {0}) :
     \E r \in {OnBus(peek(CartFields, address, chipValue, uninit), {})} :
        CartStep("peek", 0, address, 0, r, "access")
  /\ UNCHANGED << runGame, runEmulator, gamePc, emuPc, gameLog >>

\* The stores a game thread has published and the emulator has not executed.
NextStore(log) ==
  IF log.executed < Len(log.published) THEN {log.published[log.executed + 1]} ELSE {}

\* The emulator thread writes the bus. A write that follows the fetch of the
\* operand of a game thread's next published store is that store.
Poke(address, value) ==
  /\ UNCHANGED << resamplerVars, bufferVars, consoleVars, extraVars >>
  /\ emuPc = "run"
  /\ cartCall.accesses < MaxBusAccesses
  /\ \E r \in {OnBus(poke(CartFields, address, value),
                     {s.data : s \in {t \in UNION {NextStore(gameLog[g]) : g \in DOMAIN gameLog} :
                                        t.addr = lastPeekAddress}})} :
        CartStep("poke", 0, address, value, r, "access")
  /\ gameLog' = [g \in DOMAIN gameLog |->
                   IF \E s \in NextStore(gameLog[g]) : s.addr = lastPeekAddress
                     THEN [gameLog[g] EXCEPT !.executed = @ + 1]
                     ELSE gameLog[g]]
  /\ UNCHANGED << runGame, runEmulator, gamePc, emuPc >>

\* The debugger (or a cheat) patches the ROM image on the emulator thread.
Patch(address, value) ==
  /\ UNCHANGED << resamplerVars, bufferVars, consoleVars, extraVars >>
  /\ emuPc = "run"
  /\ cartCall.patches < MaxPatches
  /\ \E r \in {OnBus(patch(CartFields, address, value), {})} :
        CartStep("patch", 0, address, value, r, "patch")
  /\ UNCHANGED << runGame, runEmulator, gamePc, emuPc, gameLog >>

\* The indices _romHistory[nextRomIndex++] passes through in n stores.
EmitIndices(c, n) == {(c.nextRomIndex + k) % UInt16 : k \in 0..(n - 1)}

\* What a call of the game code did: the cartridge after it and the indices
\* of _romHistory and _stuffHistory it stored to.
Emitted(c, wrote, stuffWrote) ==
  [c |-> c, target |-> "ROM", forwarded |-> 0, value |-> 0, result |-> 0, stuffed |-> FALSE,
   wrote |-> wrote, stuffWrote |-> stuffWrote, expected |-> {}]

\* A game thread inside the game code calls vcsWrite3.
VcsWrite3(g, ZP, data) ==
  /\ UNCHANGED << resamplerVars, bufferVars, consoleVars, extraVars >>
  /\ g \in DOMAIN gamePc
  /\ gamePc[g] = "run"
  /\ cartCall.emits < MaxEmits
  /\ \E r \in {Emitted(vcsWrite3(CartFields, ZP, data), EmitIndices(CartFields, 2),
                       {nextStuffIndex})} :
        CartStep("vcsWrite3", g, 0, data, r, "emit")
  /\ gameLog' = [gameLog EXCEPT ![g].written =
                   Append(@, [addr |-> RomSelect + nextRomIndex + 1, data |-> data])]
  /\ UNCHANGED << runGame, runEmulator, gamePc, emuPc >>

VcsNop2(g) ==
  /\ UNCHANGED << resamplerVars, bufferVars, consoleVars, extraVars >>
  /\ g \in DOMAIN gamePc
  /\ gamePc[g] = "run"
  /\ cartCall.emits < MaxEmits
  /\ \E r \in {Emitted(vcsNop2(CartFields), EmitIndices(CartFields, 1), {})} :
        CartStep("vcsNop2", g, 0, 0, r, "emit")
  /\ UNCHANGED << runGame, runEmulator, gamePc, emuPc, gameLog >>

\* The part of a hand-off before it takes the mutex: the stores emitted since
\* the thread's last hand-off are published to the emulator.
HandOffEmitted(g, op, given, r) ==
  /\ UNCHANGED << resamplerVars, bufferVars, consoleVars, extraVars >>
  /\ cartCall.handoffs < MaxHandoffs
  /\ CartStep(op, g, 0, given, r, "handoff")
  /\ gamePc' = [gamePc EXCEPT ![g] = "lock"]
  /\ gameLog' = [gameLog EXCEPT ![g] = [rsg |-> gameLog[g].rsg, written |-> << >>,
                                        published |-> gameLog[g].written, executed |-> 0]]
  /\ UNCHANGED << runGame, runEmulator, emuPc >>

\* startGame() begins with vcsJmp3(); the game code may call it again.
VcsJmp3(g) ==
  /\ g \in DOMAIN gamePc
  /\ gamePc[g] \in {"start", "run"}
  /\ \E r \in {Emitted(vcsJmp3(CartFields), EmitIndices(CartFields, 3), {})} :
        HandOffEmitted(g, "vcsJmp3", 0, r)

VcsRead4(g, address) ==
  /\ g \in DOMAIN gamePc
  /\ gamePc[g] = "run"
  /\ \E r \in {Emitted(vcsRead4(CartFields, address), EmitIndices(CartFields, 3), {})} :
        HandOffEmitted(g, "vcsRead4", address, r)

VcsJsr6(g, target) ==
  /\ g \in DOMAIN gamePc
  /\ gamePc[g] = "run"
  /\ \E r \in {Emitted(vcsJsr6(CartFields, target), EmitIndices(CartFields, 3), {})} :
        HandOffEmitted(g, "vcsJsr6", target, r)

EndOverblank(g) ==
  /\ g \in DOMAIN gamePc
  /\ gamePc[g] = "run"
  /\ \E r \in {Emitted(EndOverblankEmit(CartFields), {RomMask}, {})} :
        HandOffEmitted(g, "EndOverblank", 0, r)

\* cv.notify_one(): one of the threads blocked in cv.wait is woken, whichever
\* the scheduler picks; -1 stands for 'no thread is waiting'.
Waiters ==
  {g \in DOMAIN gamePc : gamePc[g] = "wait"} \cup (IF emuPc = "wait" THEN {0} ELSE {})
NotifyChoices == IF Waiters = {} THEN {-1} ELSE Waiters

\* A hand-off under the mutex: the flags are set, one waiter is notified and the
\* thread blocks in cv.wait(lk, [] {return _runGame; }).
HandOffWait(g) ==
  /\ UNCHANGED << resamplerVars, bufferVars, consoleVars, extraVars >>
  /\ g \in DOMAIN gamePc
  /\ gamePc[g] = "lock"
  /\ runGame' = FALSE /\ runEmulator' = TRUE
  /\ \E w \in NotifyChoices :
       /\ gamePc' = [k \in DOMAIN gamePc |->
                       IF k = g THEN "wait" ELSE IF k = w THEN "notified" ELSE gamePc[k]]
       /\ emuPc' = IF w = 0 THEN "notified" ELSE emuPc
  /\ gameLog' = [gameLog EXCEPT ![g].rsg = FALSE]
  /\ cartCall' = [cartCall EXCEPT !.op = "hand-off waits", !.thread = g, !.handoffSeen = TRUE,
                                  !.before = CartFields]
  /\ UNCHANGED << romHistory, stuffHistory, nextRomIndex, nextStuffIndex, nextJumpTarget,
                  stuffCount, lastPeekAddress, lastReadValue >>

\* A woken game thread re-takes the mutex and tests _runGame: it returns from
\* its hand-off or blocks again.
GameWakes(g) ==
  /\ UNCHANGED << resamplerVars, bufferVars, consoleVars, extraVars >>
  /\ g \in DOMAIN gamePc
  /\ gamePc[g] = "notified"
  /\ gamePc' = [gamePc EXCEPT ![g] = IF runGame THEN "run" ELSE "wait"]
  /\ cartCall' = IF runGame
                   THEN [cartCall EXCEPT !.op = "hand-off returns", !.thread = g,
                                         !.rsgSeen = gameLog[g].rsg, !.before = CartFields]
                   ELSE cartCall
  /\ UNCHANGED << romHistory, stuffHistory, nextRomIndex, nextStuffIndex, nextJumpTarget,
                  stuffCount, lastPeekAddress, lastReadValue, runGame, runEmulator,
                  emuPc, gameLog >>

\* The emulator thread executes the emitted jump: RunStrongArmGame resets the
\* indices before it takes the mutex.
RunStrongArmGame ==
  /\ UNCHANGED << resamplerVars, bufferVars, consoleVars, extraVars >>
  /\ emuPc = "run"
  /\ \E r \in {Emitted(RunStrongArmGameEnter(CartFields), {}, {})} :
        CartStep("RunStrongArmGame", 0, 0, 0, r, "enter")
  /\ emuPc' = "entered"
  /\ gameLog' = [g \in DOMAIN gameLog |->
                   IF Blocked(gamePc[g]) THEN [gameLog[g] EXCEPT !.rsg = TRUE]
                   ELSE gameLog[g]]
  /\ UNCHANGED << runGame, runEmulator, gamePc >>

\* RunStrongArmGame under the mutex: the flags are set, one waiter is notified
\* and the thread blocks in cv.wait(lk, [] {return _runEmulator; }).
RunStrongArmGameWait ==
  /\ UNCHANGED << resamplerVars, bufferVars, consoleVars, extraVars >>
  /\ emuPc = "entered"
  /\ runEmulator' = FALSE /\ runGame' = TRUE
  /\ \E w \in NotifyChoices :
       gamePc' = [k \in DOMAIN gamePc |-> IF k = w THEN "notified" ELSE gamePc[k]]
  /\ emuPc' = "wait"
  /\ cartCall' = [cartCall EXCEPT !.op = "RunStrongArmGame waits", !.thread = 0,
                                  !.handoffSeen = FALSE, !.before = CartFields]
  /\ UNCHANGED << romHistory, stuffHistory, nextRomIndex, nextStuffIndex, nextJumpTarget,
                  stuffCount, lastPeekAddress, lastReadValue, gameLog >>

\* The woken emulator thread re-takes the mutex and tests _runEmulator: it
\* returns from RunStrongArmGame or blocks again.
EmulatorWakes ==
  /\ UNCHANGED << resamplerVars, bufferVars, consoleVars, extraVars >>
  /\ emuPc = "notified"
  /\ emuPc' = IF runEmulator THEN "run" ELSE "wait"
  /\ cartCall' = IF runEmulator
                   THEN [cartCall EXCEPT !.op = "RunStrongArmGame returns", !.thread = 0,
                                         !.before = CartFields]
                   ELSE cartCall
  /\ UNCHANGED << romHistory, stuffHistory, nextRomIndex, nextStuffIndex, nextJumpTarget,
                  stuffCount, lastPeekAddress, lastReadValue, runGame, runEmulator,
                  gamePc, gameLog >>

\* cv.wait may return without a notification.
SpuriousWake(thread) ==
  /\ UNCHANGED << resamplerVars, bufferVars, consoleVars, extraVars >>
  /\ thread \in Waiters
  /\ gamePc' = [k \in DOMAIN gamePc |-> IF k = thread THEN "notified" ELSE gamePc[k]]
  /\ emuPc' = IF thread = 0 THEN "notified" ELSE emuPc
  /\ UNCHANGED << romHistory, stuffHistory, nextRomIndex, nextStuffIndex, nextJumpTarget,
                  stuffCount, lastPeekAddress, lastReadValue, runGame, runEmulator,
                  gameLog, cartCall >>

\* CartStrongArmDev::reset(), called on the emulator thread by System::reset:
\* one more game thread is created; the CPU restarts at the reset vector, so
\* the published stores are executed from the first again.
Reset ==
  /\ UNCHANGED << resamplerVars, bufferVars, consoleVars, extraVars >>
  /\ emuPc = "run"
  /\ Len(gamePc) < MaxGameThreads
  /\ gamePc' = Append(gamePc, "start")
  /\ gameLog' = Append([g \in DOMAIN gameLog |-> [gameLog[g] EXCEPT !.executed = 0]],
                       NewGameLog)
  /\ \E r \in {Emitted([CartFields EXCEPT !.nextStuffIndex = 0], {}, {})} :
        CartStep("reset", 0, 0, 0, r, "reset")
  /\ UNCHANGED << runGame, runEmulator, emuPc >>

InitCart ==
  CartConstructed /\ ResamplerAbsent /\ BufferAbsent /\ ConsoleAbsent /\ ExtraAbsent

\* One game thread and the emulator thread on the bus.
NextCart ==
  \/ \E address \in Addresses : Peek(address)
  \/ \E address \in Addresses, value \in PokeValues : Poke(address, value)
  \/ \E ZP \in ZeroPages, data \in StuffData : VcsWrite3(1, ZP, data)
  \/ VcsNop2(1)
  \/ VcsJmp3(1)
  \/ HandOffWait(1)
  \/ GameWakes(1)
  \/ RunStrongArmGame
  \/ RunStrongArmGameWait
  \/ EmulatorWakes

SpecCart == InitCart /\ [][NextCart]_vars

\* The cartridge's ROM image under bus writes, patches and the emitters.
NextRom ==
  \/ \E address \in Addresses, value \in PokeValues : Poke(address, value)
  \/ \E address \in Addresses, value \in PokeValues : Patch(address, value)
  \/ \E ZP \in ZeroPages, data \in StuffData : VcsWrite3(1, ZP, data)
  \/ VcsNop2(1)
  \/ VcsJmp3(1)
  \/ HandOffWait(1)
  \/ GameWakes(1)
  \/ RunStrongArmGame
  \/ RunStrongArmGameWait
  \/ EmulatorWakes

SpecRom == InitCart /\ [][NextRom]_vars

ReadAddresses == {640}         \* the operand of vcsRead4: 0x0280
JumpTargets == {8187}          \* the operand of vcsJsr6: 0x1ffb
StoreFetches == {4097}         \* the operand fetch of the first emitted store: 0x1001

\* Every game thread reset() has started, the emulator thread, and the
\* condition variable between them.
NextThreads ==
  \/ Reset
  \/ \E address \in StoreFetches : Peek(address)
  \/ \E g \in GameThreads : VcsNop2(g)
  \/ \E g \in GameThreads : VcsJmp3(g)
  \/ \E g \in GameThreads, address \in ReadAddresses : VcsRead4(g, address)
  \/ \E g \in GameThreads, target \in JumpTargets : VcsJsr6(g, target)
  \/ \E g \in GameThreads : EndOverblank(g)
  \/ \E g \in GameThreads : HandOffWait(g)
  \/ \E g \in GameThreads : GameWakes(g)
  \/ RunStrongArmGame
  \/ RunStrongArmGameWait
  \/ EmulatorWakes
  \/ \E thread \in Threads : SpuriousWake(thread)

SpecThreads == InitCart /\ [][NextThreads]_vars

\* The code the game threads emit and the emulator thread executing it.
NextStuff ==
  \/ Reset
  \/ \E address \in StoreFetches : Peek(address)
  \/ \E ZP \in ZeroPages, value \in PokeValues : Poke(ZP, value)
  \/ \E g \in GameThreads, ZP \in ZeroPages, data \in StuffData : VcsWrite3(g, ZP, data)
  \/ \E g \in GameThreads : VcsNop2(g)
  \/ \E g \in GameThreads : VcsJmp3(g)
  \/ \E g \in GameThreads, target \in JumpTargets : VcsJsr6(g, target)
  \/ \E g \in GameThreads : HandOffWait(g)
  \/ \E g \in GameThreads : GameWakes(g)
  \/ RunStrongArmGame
  \/ RunStrongArmGameWait
  \/ EmulatorWakes

SpecStuff == InitCart /\ [][NextStuff]_vars

\* ------------------------------------------------------------ Console
YSTART_EXTRA == 2
FrameLayoutFrames == 60        \* TIA updates of autodetectFrameLayout
YStartFrames == 80             \* TIA updates of autodetectYStart

\* What the chip shows the installed frame manager during a run of updates:
\* the scanlines between vsync pulses frame after frame (0: no vsync seen),
\* the first row with content, and how often the game code gets to emit a ROM
\* byte meanwhile (0: never). A steady 262-line picture, a steady 312-line
\* picture, and one that never settles.
FramePatterns ==
  { [lines |-> << 262 >>, row |-> 34, emitEvery |-> 0],
    [lines |-> << 312 >>, row |-> 45, emitEvery |-> 20],
    [lines |-> << 0, 262, 312 >>, row |-> 20, emitEvery |-> 30] }

FrameAt(frames, i) ==
  [lines |-> frames.lines[(i % Len(frames.lines)) + 1], row |-> frames.row,
   emit |-> frames.emitEvery > 0 /\ i % frames.emitEvery = 0]

\* A detector as constructed: no frame classified, no row measured.
NewDetector == [ntsc |-> 0, pal |-> 0, row |-> 0, layout |-> "ntsc"]

\* The console's members, the cartridge and the setting, as one value, with
\* the record of what the call in progress has done.
ConsoleFields ==
  [system |-> mySystem, left |-> myLeftControl, right |-> myRightControl,
   switches |-> mySwitches, cart |-> CartFields, format |-> myDisplayFormat,
   ystart |-> myAutodetectedYstart, ystartAuto |-> myYStartAutodetected,
   fm |-> frameManager, fastscbios |-> fastscbios, detector |-> NewDetector,
   result |-> TRUE, updates |-> 0, managers |-> {}, detected |-> "none", classified |-> 0]

\* The emulated state: system (chips and cartridge), controllers, switches.
Emulated(s) ==
  [system |-> s.system, left |-> s.left, right |-> s.right, switches |-> s.switches,
   cart |-> s.cart]

\* CartStrongArmDev::save writes nothing, CartStrongArmDev::load reads nothing.
cartSave(c) == << >>
cartLoad(c, blob) == c

\* Console::save(out): the system, the two controllers, the switches, in turn.
save(s) ==
  << [chips |-> s.system, cart |-> cartSave(s.cart)], s.left, s.right, s.switches >>

\* Console::load(in): each component loads in turn from what `in` still holds;
\* a component that finds its data missing fails and the load returns false.
load(s, in) ==
  IF Len(in) < 1 THEN [s EXCEPT !.result = FALSE]
  ELSE LET s1 == [s EXCEPT !.system = in[1].chips, !.cart = cartLoad(s.cart, in[1].cart)]
       IN  IF Len(in) < 2 THEN [s1 EXCEPT !.result = FALSE]
           ELSE IF Len(in) < 3 THEN [s1 EXCEPT !.left = in[2], !.result = FALSE]
           ELSE IF Len(in) < 4
                  THEN [s1 EXCEPT !.left = in[2], !.right = in[3], !.result = FALSE]
           ELSE [s1 EXCEPT !.left = in[2], !.right = in[3], !.switches = in[4],
                           !.result = TRUE]

\* FrameLayoutDetector: a frame of about 262 lines counts as NTSC, one of about
\* 312 lines as PAL; the layout is PAL when PAL frames are the majority.
classify(d, lines) ==
  IF lines = 312 THEN [d EXCEPT !.pal = @ + 1]
  ELSE IF lines = 262 THEN [d EXCEPT !.ntsc = @ + 1]
  ELSE d

detectedLayout(d) == IF d.pal > d.ntsc THEN "pal" ELSE "ntsc"

\* What a run of TIA updates works on: the chips, the cartridge, the frame
\* manager installed in the TIA with the detector's findings, and the record of
\* the updates done.
Running(s) ==
  [system |-> s.system, cart |-> s.cart, fm |-> s.fm, detector |-> s.detector,
   updates |-> s.updates, managers |-> s.managers, i |-> 0]

\* myTIA->update(): the chips advance, the game code may emit, and the
\* installed frame manager sees the frame.
tiaUpdate(t, frame) ==
  [system |-> t.system + 1,
   cart |-> IF frame.emit THEN vcsNop2(t.cart) ELSE t.cart,
   fm |-> t.fm,
   detector |-> IF t.fm = "FrameLayoutDetector" THEN classify(t.detector, frame.lines)
                ELSE IF t.fm = "YStartDetector" THEN [t.detector EXCEPT !.row = frame.row]
                ELSE t.detector,
   updates |-> t.updates + 1,
   managers |-> t.managers \cup {t.fm},
   i |-> t.i]

RECURSIVE UpdateLoop_UntilClassified(_, _, _)
UpdateLoop_UntilClassified(t, n, frames) ==
  IF t.i >= n \/ t.detector.pal + t.detector.ntsc > 0 THEN t
  ELSE UpdateLoop_UntilClassified([tiaUpdate(t, FrameAt(frames, t.i)) EXCEPT !.i = @ + 1],
                                  n, frames)

\* for (int i = ...; i < n; ++i) myTIA->update();   with the loop variable t.i
RECURSIVE UpdateLoop(_, _, _)
UpdateLoop(t, n, frames) ==
  IF t.i >= n THEN t
  ELSE UpdateLoop([tiaUpdate(t, FrameAt(frames, t.i)) EXCEPT !.i = @ + 1], n, frames)

\* mySystem->reset(true): the chips return to power-on, the cartridge's reset()
\* starts over its stuffing index.
systemReset(t) == [t EXCEPT !.system = 0, !.cart.nextStuffIndex = 0]

RestoreFrameManager_Skipped(t) == t

\* myTIA->setFrameManager(myFrameManager.get())
RestoreFrameManager(t) == [t EXCEPT !.fm = "FrameManager"]

DisplayFormatOf_Inverted(layout) == IF layout = "pal" THEN "NTSC" ELSE "PAL"

\* detectedLayout() == FrameLayout::pal ? "PAL" : "NTSC"
DisplayFormatOf(layout) == IF layout = "pal" THEN "PAL" ELSE "NTSC"

\* The detection run of both autodetect functions: the detector is installed,
\* the system is reset if asked for, the TIA is updated n times, the console's
\* own frame manager is installed again.
DetectionRun(s, name, reset, n, frames) ==
  LET t1 == [Running(s) EXCEPT
               !.fm = name,
               !.detector = [NewDetector EXCEPT
                               !.layout = IF s.format = "PAL" THEN "pal" ELSE "ntsc"]]
      t2 == IF reset THEN systemReset(t1) ELSE t1
  IN  RestoreFrameManager(UpdateLoop(t2, n, frames))

\* The console after a detection run t.
AfterRun(s, t) ==
  [s EXCEPT !.system = t.system, !.cart = t.cart, !.fm = t.fm, !.detector = t.detector,
            !.updates = t.updates, !.managers = t.managers]

\* Console::autodetectFrameLayout(reset); 'fastscbios' is true during the run.
autodetectFrameLayout(s, reset, frames) ==
  LET t == CHOOSE x \in {DetectionRun([s EXCEPT !.fastscbios = TRUE], "FrameLayoutDetector",
                                      reset, FrameLayoutFrames, frames)} : TRUE
  IN  [AfterRun(s, t) EXCEPT !.format = DisplayFormatOf(detectedLayout(t.detector)),
                             !.detected = detectedLayout(t.detector),
                             !.classified = t.detector.pal + t.detector.ntsc,
                             !.fastscbios = s.fastscbios]

\* Console::autodetectYStart(reset); 'fastscbios' is true during the run.
autodetectYStart(s, reset, frames) ==
  LET t == CHOOSE x \in {DetectionRun([s EXCEPT !.fastscbios = TRUE], "YStartDetector",
                                      reset, YStartFrames, frames)} : TRUE
  IN  [AfterRun(s, t) EXCEPT !.ystart = t.detector.row - YSTART_EXTRA,
                             !.fastscbios = s.fastscbios,
                             !.ystartAuto = TRUE]

\* Console::redetectFrameLayout(); `reset` is the default argument of
\* autodetectYStart.
redetectFrameLayout(s, frames, reset) ==
  LET s1 == CHOOSE x \in {autodetectFrameLayout(s, FALSE, frames)} : TRUE
      s2 == IF s1.ystartAuto THEN autodetectYStart(s1, reset, frames) ELSE s1
  IN  [load(s2, save(s)) EXCEPT !.result = TRUE]

\* Console::redetectYStart()
redetectYStart(s, frames) ==
  [load(autodetectYStart(s, FALSE, frames), save(s)) EXCEPT !.result = TRUE]

\* The console as its constructor leaves it when no autodetection was asked
\* for, around a cartridge that was constructed and reset.
ConsoleConstructed ==
  /\ mySystem = 0
  /\ myLeftControl = 0 /\ myRightControl = 0 /\ mySwitches = 0
  /\ myDisplayFormat = "NTSC"
  /\ myAutodetectedYstart = 0
  /\ myYStartAutodetected = FALSE
  /\ frameManager = "FrameManager"
  /\ fastscbios \in BOOLEAN
  /\ serializer = NoSerializer
  /\ consoleCall = NoConsoleCall

\* Writes the value r back and records what the call did.
ConsoleWrite(op, r, given) ==
  /\ mySystem' = r.system
  /\ myLeftControl' = r.left /\ myRightControl' = r.right /\ mySwitches' = r.switches
  /\ myDisplayFormat' = r.format
  /\ myAutodetectedYstart' = r.ystart
  /\ myYStartAutodetected' = r.ystartAuto
  /\ frameManager' = r.fm
  /\ fastscbios' = r.fastscbios
  /\ romHistory' = r.cart.rom
  /\ stuffHistory' = r.cart.stuff
  /\ nextRomIndex' = r.cart.nextRomIndex
  /\ nextStuffIndex' = r.cart.nextStuffIndex
  /\ nextJumpTarget' = r.cart.nextJumpTarget
  /\ stuffCount' = r.cart.stuffCount
  /\ lastPeekAddress' = r.cart.lastPeekAddress
  /\ lastReadValue' = r.cart.lastReadValue
  /\ consoleCall' = [op |-> op, result |-> r.result, given |-> given, updates |-> r.updates,
                     managers |-> r.managers, detected |-> r.detected,
                     classified |-> r.classified,
                     fastscbiosBefore |-> fastscbios, before |-> Emulated(ConsoleFields),
                     calls |-> consoleCall.calls + 1]
  /\ UNCHANGED << runGame, runEmulator, gamePc, emuPc, gameLog, cartCall >>
  /\ UNCHANGED << resamplerVars, bufferVars >>

ConsoleStep(op, r, given) ==
  /\ ConsoleWrite(op, r, given)
  /\ UNCHANGED extraVars

\* Console::save(s) into the caller's Serializer
Save ==
  /\ consoleCall.calls < MaxConsoleCalls
  /\ ConsoleStep("save", ConsoleFields, << >>)
  /\ serializer' = [data |-> save(ConsoleFields), at |-> Emulated(ConsoleFields)]

\* Console::load(in), where `in` holds the first n components of what was
\* saved (all 4: the intact snapshot; fewer: a truncated one)
Load(n) ==
  /\ consoleCall.calls < MaxConsoleCalls
  /\ serializer # NoSerializer
  /\ \E in \in {SubSeq(serializer.data, 1, n)} :
     \E r \in {load(ConsoleFields, in)} : ConsoleStep("load", r, in)
  /\ UNCHANGED serializer

\* The emulation goes on for a frame: the chips advance, the controllers and
\* switches follow the player, the game code may emit a ROM byte and a stuff
\* entry.
Emulate(emits) ==
  /\ consoleCall.calls < MaxConsoleCalls
  /\ \E r \in {[AfterRun(ConsoleFields,
                           tiaUpdate(Running(ConsoleFields),
                                     [lines |-> 262, row |-> 34, emit |-> FALSE]))
                  EXCEPT !.left = 1 - @, !.right = 1 - @, !.switches = 1 - @,
                         !.cart = IF emits THEN vcsWrite3(@, 2, 7) ELSE @]} :
        ConsoleStep("emulate", r, << >>)
  /\ UNCHANGED serializer

AutodetectFrameLayout(reset, frames) ==
  /\ consoleCall.calls < MaxConsoleCalls
  /\ \E r \in {autodetectFrameLayout(ConsoleFields, reset, frames)} :
        ConsoleStep("autodetectFrameLayout", r, frames)
  /\ UNCHANGED serializer

AutodetectYStart(reset, frames) ==
  /\ consoleCall.calls < MaxConsoleCalls
  /\ \E r \in {autodetectYStart(ConsoleFields, reset, frames)} :
        ConsoleStep("autodetectYStart", r, frames)
  /\ UNCHANGED serializer

RedetectFrameLayout(frames, reset) ==
  /\ consoleCall.calls < MaxConsoleCalls
  /\ \E r \in {redetectFrameLayout(ConsoleFields, frames, reset)} :
        ConsoleStep("redetectFrameLayout", r, frames)
  /\ UNCHANGED serializer

RedetectYStart(frames) ==
  /\ consoleCall.calls < MaxConsoleCalls
  /\ \E r \in {redetectYStart(ConsoleFields, frames)} :
        ConsoleStep("redetectYStart", r, frames)
  /\ UNCHANGED serializer

InitConsole ==
  ConsoleConstructed /\ CartConstructed /\ ResamplerAbsent /\ BufferAbsent /\ ExtraAbsent

NextConsole ==
  \/ Save
  \/ \E n \in 0..4 : Load(n)
  \/ \E emits \in BOOLEAN : Emulate(emits)
  \/ \E reset \in BOOLEAN, frames \in FramePatterns : AutodetectFrameLayout(reset, frames)
  \/ \E reset \in BOOLEAN, frames \in FramePatterns : AutodetectYStart(reset, frames)
  \/ \E frames \in FramePatterns, reset \in BOOLEAN : RedetectFrameLayout(frames, reset)
  \/ \E frames \in FramePatterns : RedetectYStart(frames)

SpecConsole == InitConsole /\ [][NextConsole]_vars

\* ------------------------------------------------------- Console palettes
PaletteColors == 128           \* colours of the NTSC and of the PAL palette
SecamColors == 8               \* colours of the SECAM palette
PixelBytes == 3                \* bytes of one 24-bit pixel
PaletteEntries == 256          \* uInt32 entries of one palette array
PaletteFileBytes == PaletteColors * PixelBytes * 2 + SecamColors * PixelBytes

\* The palette files tried: none at the path, or one of a length around the
\* required 792 bytes; byte k of a file is a function of its seed.
PaletteFiles ==
  {[exists |-> FALSE, length |-> 0, seed |-> 0]} \cup
  [exists : {TRUE}, length : {0, PaletteFileBytes - 1, PaletteFileBytes, PaletteFileBytes + 9},
   seed : {1, 2}]
FileByte(f, k) == (f.seed * (k + 1)) % UInt8

DisplayFormats == {"NTSC", "PAL", "SECAM", "NTSC50", "PAL60", "SECAM60"}
PaletteTypes == {"standard", "z26", "user", "custom"}

\* in.read(pixbuf, 3) at byte offset k, then the pixel built from pixbuf
PixelAt(f, k) == FileByte(f, k) * 65536 + FileByte(f, k + 1) * 256 + FileByte(f, k + 2)

\* The user palettes and the flag, as one value.
UserPalette ==
  [ntsc |-> ourUserNTSCPalette, pal |-> ourUserPALPalette, secam |-> ourUserSECAMPalette,
   defined |-> myUserPaletteDefined]

\* The reads and stores of loadUserPalette once the file has passed its checks.
FillUserPalette(p, f) ==
  LET secam == [j \in 0..(2 * SecamColors - 1) |->
                  IF j % 2 = 0
                    THEN PixelAt(f, 2 * PaletteColors * PixelBytes + PixelBytes * (j \div 2))
                    ELSE 0]
  IN  [ntsc |-> [k \in 0..(PaletteEntries - 1) |->
                   IF k % 2 = 0 THEN PixelAt(f, PixelBytes * (k \div 2)) ELSE p.ntsc[k]],
       pal |-> [k \in 0..(PaletteEntries - 1) |->
                   IF k % 2 = 0
                     THEN PixelAt(f, PaletteColors * PixelBytes + PixelBytes * (k \div 2))
                     ELSE p.pal[k]],
       secam |-> [k \in 0..(PaletteEntries - 1) |-> secam[k % (2 * SecamColors)]],
       defined |-> TRUE]

loadUserPalette_ChecksOpenOnly(p, f) ==
  IF ~f.exists THEN p ELSE FillUserPalette(p, f)

\* Console::loadUserPalette()
loadUserPalette(p, f) ==
  IF ~f.exists THEN p
  ELSE IF f.length < PaletteFileBytes THEN p
  ELSE FillUserPalette(p, f)

togglePaletteNext_IgnoresFlag(palette, defined) ==
  IF palette = "standard" THEN "z26"
  ELSE IF palette = "z26" THEN "user"
  ELSE "standard"

\* The palette name Console::togglePalette() moves to.
togglePaletteNext(palette, defined) ==
  IF palette = "standard" THEN "z26"
  ELSE IF palette = "z26" THEN (IF defined THEN "user" ELSE "standard")
  ELSE IF palette = "user" THEN "standard"
  ELSE "standard"

\* myDisplayFormat.compare(0, 3, "PAL") == 0 and compare(0, 5, "SECAM") == 0
StartsWithPAL(format) == format \in {"PAL", "PAL60"}
StartsWithSECAM(format) == format \in {"SECAM", "SECAM60"}

\* Console::setPalette(type): the array handed to FrameBuffer::setPalette
setPalette(type, defined, format) ==
  LET paletteNum == IF type = "standard" THEN 0
                    ELSE IF type = "z26" THEN 1
                    ELSE IF type = "user" /\ defined THEN 2
                    ELSE 0
      column == IF StartsWithPAL(format) THEN 1
                ELSE IF StartsWithSECAM(format) THEN 2
                ELSE 0
  IN  << << "ourNTSCPalette", "ourPALPalette", "ourSECAMPalette" >>,
         << "ourNTSCPaletteZ26", "ourPALPaletteZ26", "ourSECAMPaletteZ26" >>,
         << "ourUserNTSCPalette", "ourUserPALPalette", "ourUserSECAMPalette" >>
      >>[paletteNum + 1][column + 1]

\* The console's constructor has run loadUserPalette on the file it found; the
\* statics start zeroed, the setting holds what the settings file held.
PaletteConstructed ==
  /\ \E f \in PaletteFiles :
     \E p \in {loadUserPalette([ntsc |-> [k \in 0..(PaletteEntries - 1) |-> 0],
                                pal |-> [k \in 0..(PaletteEntries - 1) |-> 0],
                                secam |-> [k \in 0..(PaletteEntries - 1) |-> 0],
                                defined |-> FALSE], f)} :
       /\ ourUserNTSCPalette = p.ntsc /\ ourUserPALPalette = p.pal
       /\ ourUserSECAMPalette = p.secam /\ myUserPaletteDefined = p.defined
  /\ paletteSetting \in PaletteTypes
  /\ framePalette = "none"
  /\ paletteCall = NoPaletteCall

PaletteStep(op, given) ==
  paletteCall' = [op |-> op, given |-> given, before |-> UserPalette,
                  settingBefore |-> paletteSetting, calls |-> paletteCall.calls + 1]

LoadUserPalette(f) ==
  /\ UNCHANGED notPalette
  /\ paletteCall.calls < MaxPaletteCalls
  /\ \E p \in {loadUserPalette(UserPalette, f)} :
       /\ ourUserNTSCPalette' = p.ntsc /\ ourUserPALPalette' = p.pal
       /\ ourUserSECAMPalette' = p.secam /\ myUserPaletteDefined' = p.defined
  /\ PaletteStep("loadUserPalette", f)
  /\ UNCHANGED << paletteSetting, framePalette >>

TogglePalette ==
  /\ UNCHANGED notPalette
  /\ paletteCall.calls < MaxPaletteCalls
  /\ \E palette \in {togglePaletteNext(paletteSetting, myUserPaletteDefined)} :
       /\ paletteSetting' = palette
       /\ framePalette' = setPalette(palette, myUserPaletteDefined, myDisplayFormat)
  /\ PaletteStep("togglePalette", paletteSetting)
  /\ UNCHANGED << ourUserNTSCPalette, ourUserPALPalette, ourUserSECAMPalette,
                  myUserPaletteDefined >>

SetPalette(type) ==
  /\ UNCHANGED notPalette
  /\ paletteCall.calls < MaxPaletteCalls
  /\ framePalette' = setPalette(type, myUserPaletteDefined, myDisplayFormat)
  /\ PaletteStep("setPalette", type)
  /\ UNCHANGED << ourUserNTSCPalette, ourUserPALPalette, ourUserSECAMPalette,
                  myUserPaletteDefined, paletteSetting >>

\* Only the display format of the console matters to the palettes.
InitPalette ==
  /\ PaletteConstructed
  /\ mySystem = 0 /\ myLeftControl = 0 /\ myRightControl = 0 /\ mySwitches = 0
  /\ myDisplayFormat \in DisplayFormats
  /\ myAutodetectedYstart = 0 /\ myYStartAutodetected = FALSE
  /\ frameManager = "FrameManager" /\ fastscbios = FALSE
  /\ serializer = NoSerializer
  /\ consoleCall = NoConsoleCall
  /\ ResamplerAbsent /\ BufferAbsent /\ CartAbsent /\ TiaAbsent /\ DialogAbsent
  /\ FbAbsent /\ FormatAbsent

NextPalette ==
  \/ \E f \in PaletteFiles : LoadUserPalette(f)
  \/ TogglePalette
  \/ \E type \in PaletteTypes : SetPalette(type)

SpecPalette == InitPalette /\ [][NextPalette]_vars

\* ------------------------------------------------ TIA collision latches
LineClocks == 228              \* colour clocks of one scanline
FrameLines == 262              \* scanlines of one NTSC frame
FrameClocks == LineClocks * FrameLines

\* The five graphics objects and the playfield.
TiaObjects == {"P0", "P1", "M0", "M1", "BL", "PF"}

\* The object pairs among the objects that contribute a pixel at one position.
ActivePairs(active) == {pair \in SUBSET active : Cardinality(pair) = 2}

\* The sets of objects seen overlapping while the chip advances.
OverlapStates == {{}, {"P0", "P1"}, {"P0", "BL", "PF"}, {"M0", "M1"}}

\* How far one advance runs: a clock, a scanline, a frame.
AdvanceClocks == {1, LineClocks, FrameClocks}

updateCollision_FollowsOverlap(latch, active) == ActivePairs(active)

\* Every concurrently active pair is OR'd into the latch of that pair.
updateCollision(latch, active) == latch \cup ActivePairs(active)

\* Power-on: no clock has run, no latch is set.
TiaConstructed ==
  /\ tiaClock = 0
  /\ collisions = {}
  /\ tiaCall = NoTiaCall

\* advance(targetCycle): the chip runs `clocks` colour clocks during which the
\* objects of `active` overlap.
Advance(clocks, active) ==
  /\ UNCHANGED notTia
  /\ tiaCall.calls < MaxTiaCalls
  /\ tiaClock' = tiaClock + clocks
  /\ collisions' = updateCollision(collisions, active)
  /\ tiaCall' = [op |-> "advance", active |-> active, before |-> collisions,
                 frames |-> ((tiaClock + clocks) \div FrameClocks) - (tiaClock \div FrameClocks),
                 calls |-> tiaCall.calls + 1]

\* A write to the collision-clear strobe register.
ClearStrobe ==
  /\ UNCHANGED notTia
  /\ tiaCall.calls < MaxTiaCalls
  /\ collisions' = {}
  /\ tiaCall' = [op |-> "clear", active |-> {}, before |-> collisions, frames |-> 0,
                 calls |-> tiaCall.calls + 1]
  /\ UNCHANGED tiaClock

InitTia ==
  TiaConstructed /\ ResamplerAbsent /\ BufferAbsent /\ CartAbsent /\ ConsoleAbsent
  /\ PaletteAbsent /\ DialogAbsent /\ FbAbsent /\ FormatAbsent

NextTia ==
  \/ \E clocks \in AdvanceClocks, active \in OverlapStates : Advance(clocks, active)
  \/ ClearStrobe

SpecTia == InitTia /\ [][NextTia]_vars

\* ------------------------------------------- DialogContainer click counting

\* Declared in DialogContainer.hxx, in milliseconds.
kDoubleClickDelay == 500
kRepeatInitialDelay == 400
kRepeatSustainDelay == 50

ClickSlop == 3                 \* std::abs(myLastClick.x - x) < 3
MouseButtons == {"LEFT", "RIGHT", "WHEELUP"}
ClickPoints == {<< 10, 20 >>, << 12, 22 >>, << 13, 20 >>}   \* after translateCoords
TimeSteps == {499000, 500000}  \* microseconds between two calls of updateTime

Abs(n) == IF n < 0 THEN -n ELSE n

NoClick == [x |-> 0, y |-> 0, time |-> 0, count |-> 0]
NoMouseDown == [x |-> 0, y |-> 0, b |-> "NONE"]

\* The container's members that mouse events and the clock touch.
DialogFields ==
  [myLastClick |-> myLastClick, myCurrentMouseDown |-> myCurrentMouseDown,
   myClickRepeatTime |-> myClickRepeatTime]

handleMouseButtonEvent_NoStartOver(d, time, b, pressed, x, y, wantsClicks) ==
  IF b \in {"LEFT", "RIGHT"} /\ pressed
    THEN LET c0 == d.myLastClick
             c1 == IF c0.count # 0 /\ time < c0.time + kDoubleClickDelay
                      /\ Abs(c0.x - x) < ClickSlop /\ Abs(c0.y - y) < ClickSlop
                   THEN [c0 EXCEPT !.count = @ + 1]
                   ELSE [c0 EXCEPT !.x = x, !.y = y, !.count = 1]
         IN  [d |-> [myLastClick |-> [c1 EXCEPT !.time = time],
                     myCurrentMouseDown |-> IF wantsClicks THEN [x |-> x, y |-> y, b |-> b]
                                            ELSE [d.myCurrentMouseDown EXCEPT !.b = "NONE"],
                     myClickRepeatTime |-> IF wantsClicks THEN time + kRepeatInitialDelay
                                           ELSE d.myClickRepeatTime],
              op |-> "press", reported |-> c1.count]
    ELSE [d |-> d, op |-> "other", reported |-> 0]

\* DialogContainer::handleMouseButtonEvent(b, pressed, x, y) with a dialog on
\* the stack; wantsClicks is what the dialog's handleMouseClicks answers.
handleMouseButtonEvent(d, time, b, pressed, x, y, wantsClicks) ==
  IF b \in {"LEFT", "RIGHT"} /\ pressed
    THEN LET c0 == IF d.myLastClick.count = 2 THEN NoClick ELSE d.myLastClick
             c1 == IF c0.count # 0 /\ time < c0.time + kDoubleClickDelay
                      /\ Abs(c0.x - x) < ClickSlop /\ Abs(c0.y - y) < ClickSlop
                   THEN [c0 EXCEPT !.count = @ + 1]
                   ELSE [c0 EXCEPT !.x = x, !.y = y, !.count = 1]
         IN  [d |-> [myLastClick |-> [c1 EXCEPT !.time = time],
                     myCurrentMouseDown |-> IF wantsClicks THEN [x |-> x, y |-> y, b |-> b]
                                            ELSE [d.myCurrentMouseDown EXCEPT !.b = "NONE"],
                     myClickRepeatTime |-> IF wantsClicks THEN time + kRepeatInitialDelay
                                           ELSE d.myClickRepeatTime],
              op |-> "press", reported |-> c1.count]
    ELSE IF b \in {"LEFT", "RIGHT"}
    THEN [d |-> [d EXCEPT !.myCurrentMouseDown =
                   IF b = d.myCurrentMouseDown.b THEN [@ EXCEPT !.b = "NONE"] ELSE @],
          op |-> "release", reported |-> d.myLastClick.count]
    ELSE [d |-> d, op |-> "wheel", reported |-> 0]

\* DialogContainer::reset(), the members above
reset(d) ==
  [myLastClick |-> NoClick,
   myCurrentMouseDown |-> [d.myCurrentMouseDown EXCEPT !.b = "NONE"],
   myClickRepeatTime |-> d.myClickRepeatTime]

\* The constructor: no dialog on the stack, the clock at 0, then reset().
DialogConstructed ==
  /\ myDialogStack = 0
  /\ hostTime = 0
  /\ myTime = 0
  /\ myLastClick = NoClick
  /\ myCurrentMouseDown = NoMouseDown
  /\ myClickRepeatTime = 0
  /\ dialogCall = NoDialogCall
  /\ myCurrentKeyDown = NoKeyDown /\ myKeyRepeatTime = 0 /\ keyCall = NoKeyCall

\* Writes the members back and records what the call reported to the dialog.
DialogStep(op, r, x, y) ==
  /\ myLastClick' = r.d.myLastClick
  /\ myCurrentMouseDown' = r.d.myCurrentMouseDown
  /\ myClickRepeatTime' = r.d.myClickRepeatTime
  /\ dialogCall' =
       [op |-> op, x |-> x, y |-> y, time |-> myTime', reported |-> r.reported,
        before |-> myLastClick,
        prev |-> IF op = "press" THEN dialogCall.last ELSE dialogCall.prev,
        last |-> IF op = "press"
                   THEN [count |-> r.reported, time |-> myTime, x |-> x, y |-> y]
                   ELSE dialogCall.last,
        resetBetween |-> IF op = "press" THEN dialogCall.resetSince
                         ELSE dialogCall.resetBetween,
        resetSince |-> IF op = "press" THEN FALSE
                       ELSE IF op = "reStack" THEN TRUE ELSE dialogCall.resetSince,
        calls |-> dialogCall.calls + 1]

\* A mouse button event arrives from the event handler.
HandleMouseButtonEvent(b, pressed, x, y) ==
  /\ UNCHANGED notDialog
  /\ dialogCall.calls < MaxDialogCalls
  /\ UNCHANGED << myDialogStack, hostTime, myTime >>
  /\ UNCHANGED keyVars
  /\ IF myDialogStack = 0
       THEN DialogStep("ignored", [d |-> DialogFields, reported |-> 0], x, y)
       ELSE \E wantsClicks \in BOOLEAN :
            \E r \in {handleMouseButtonEvent(DialogFields, myTime, b, pressed, x, y,
                                             wantsClicks)} :
               DialogStep(r.op, r, x, y)

\* DialogContainer::handleKeyEvent(key, mod, state) with a dialog on the stack,
\* on the members k the key repeat uses.
handleKeyEvent(k, time, key, mod, state) ==
  IF state
    THEN [myCurrentKeyDown |-> [key |-> key, mod |-> mod],
          myKeyRepeatTime |-> time + kRepeatInitialDelay]
    ELSE [myCurrentKeyDown |-> IF key = k.myCurrentKeyDown.key
                                 THEN [k.myCurrentKeyDown EXCEPT !.key = "UNKNOWN"]
                                 ELSE k.myCurrentKeyDown,
          myKeyRepeatTime |-> k.myKeyRepeatTime]

\* What is remembered of a key: whether a key-down of it has arrived, the
\* container's time then, whether its key-up or a reset() came after that
\* key-down, and when it was last re-sent since (-1: not yet).
KeyUp(h) == [h EXCEPT !.released = TRUE]

\* A key event arrives from the event handler; without a dialog on the stack
\* the handler returns at once.
HandleKeyEvent(key, mod, state) ==
  /\ UNCHANGED notDialog
  /\ keyCall.calls < MaxKeyCalls
  /\ UNCHANGED << myDialogStack, hostTime, myTime, myLastClick, myCurrentMouseDown,
                  myClickRepeatTime, dialogCall >>
  /\ \E k \in {IF myDialogStack = 0
                 THEN [myCurrentKeyDown |-> myCurrentKeyDown, myKeyRepeatTime |-> myKeyRepeatTime]
                 ELSE handleKeyEvent([myCurrentKeyDown |-> myCurrentKeyDown,
                                      myKeyRepeatTime |-> myKeyRepeatTime],
                                     myTime, key, mod, state)} :
       /\ myCurrentKeyDown' = k.myCurrentKeyDown
       /\ myKeyRepeatTime' = k.myKeyRepeatTime
  /\ keyCall' = [op |-> IF myDialogStack = 0 THEN "ignored"
                        ELSE IF state THEN "keyDown" ELSE "keyUp",
                 key |-> key, time |-> myTime, was |-> keyCall.keys[key],
                 keys |-> [keyCall.keys EXCEPT ![key] =
                             IF state
                               THEN [pressed |-> TRUE, time |-> myTime, released |-> FALSE,
                                     lastRepeat |-> -1]
                               ELSE KeyUp(@)],
                 calls |-> keyCall.calls + 1]

\* updateTime, 'Key still pressed': the key is re-sent to the active dialog.
KeyRepeat ==
  IF myDialogStack # 0 /\ myCurrentKeyDown.key # "UNKNOWN" /\ myKeyRepeatTime < myTime'
    THEN /\ myKeyRepeatTime' = myTime' + kRepeatSustainDelay
         /\ UNCHANGED myCurrentKeyDown
         /\ keyCall' = [keyCall EXCEPT
                          !.op = "repeat", !.key = myCurrentKeyDown.key, !.time = myTime',
                          !.was = keyCall.keys[myCurrentKeyDown.key],
                          !.keys[myCurrentKeyDown.key].lastRepeat = myTime']
    ELSE /\ UNCHANGED << myCurrentKeyDown, myKeyRepeatTime >>
         /\ keyCall' = [keyCall EXCEPT !.op = "time", !.time = myTime']

\* reset(), 'myCurrentKeyDown.key = KBDK_UNKNOWN; myCurrentKeyDown.mod = KBDM_NONE'
KeyReset ==
  /\ myCurrentKeyDown' = NoKeyDown
  /\ UNCHANGED myKeyRepeatTime
  /\ keyCall' = [keyCall EXCEPT !.op = "reset",
                                !.keys = [key \in DOMAIN keyCall.keys |-> KeyUp(keyCall.keys[key])]]

\* DialogContainer::updateTime(time): the clock, the key repeat and the
\* click-and-hold repeat, which reports a mouse-down with click count 1.
UpdateTime(step) ==
  /\ UNCHANGED notDialog
  /\ dialogCall.calls < MaxDialogCalls
  /\ hostTime' = hostTime + step
  /\ IF myDialogStack = 0
       THEN /\ myTime' = myTime
            /\ DialogStep("time", [d |-> DialogFields, reported |-> 0], 0, 0)
       ELSE /\ myTime' = hostTime' \div 1000
            /\ IF myCurrentMouseDown.b # "NONE" /\ myClickRepeatTime < myTime'
                 THEN DialogStep("repeat",
                                 [d |-> [DialogFields EXCEPT
                                           !.myClickRepeatTime = myTime' + kRepeatSustainDelay],
                                  reported |-> 1],
                                 myCurrentMouseDown.x, myCurrentMouseDown.y)
                 ELSE DialogStep("time", [d |-> DialogFields, reported |-> 0], 0, 0)
  /\ KeyRepeat
  /\ UNCHANGED myDialogStack

\* DialogContainer::addDialog(d) with a dialog that fits the image
AddDialog ==
  /\ UNCHANGED notDialog
  /\ dialogCall.calls < MaxDialogCalls
  /\ myDialogStack < MaxDialogs
  /\ myDialogStack' = myDialogStack + 1
  /\ UNCHANGED << hostTime, myTime >>
  /\ DialogStep("addDialog", [d |-> DialogFields, reported |-> 0], 0, 0)
  /\ UNCHANGED keyVars

\* DialogContainer::removeDialog()
RemoveDialog ==
  /\ UNCHANGED notDialog
  /\ dialogCall.calls < MaxDialogCalls
  /\ myDialogStack' = IF myDialogStack > 0 THEN myDialogStack - 1 ELSE 0
  /\ UNCHANGED << hostTime, myTime >>
  /\ DialogStep("removeDialog", [d |-> DialogFields, reported |-> 0], 0, 0)
  /\ UNCHANGED keyVars

\* DialogContainer::reStack(): every dialog is closed, the base dialog opened,
\* and reset() called.
ReStack ==
  /\ UNCHANGED notDialog
  /\ dialogCall.calls < MaxDialogCalls
  /\ myDialogStack' = 1
  /\ UNCHANGED << hostTime, myTime >>
  /\ DialogStep("reStack", [d |-> reset(DialogFields), reported |-> 0], 0, 0)
  /\ KeyReset

InitDialog ==
  /\ DialogConstructed
  /\ ResamplerAbsent /\ BufferAbsent /\ CartAbsent /\ ConsoleAbsent
  /\ PaletteAbsent /\ TiaAbsent /\ FbAbsent /\ FormatAbsent

NextDialog ==
  \/ \E b \in MouseButtons, pressed \in BOOLEAN, p \in ClickPoints :
       HandleMouseButtonEvent(b, pressed, p[1], p[2])
  \/ \E step \in TimeSteps : UpdateTime(step)
  \/ AddDialog
  \/ RemoveDialog
  \/ ReStack

SpecDialog == InitDialog /\ [][NextDialog]_vars

KeyMods == {"NONE"}            \* StellaMod values
KeyTimeSteps == {50000, 400000, 401000}  \* microseconds between two calls of updateTime

\* The container under key events.
NextKeys ==
  \/ \E key \in Keys, mod \in KeyMods, state \in BOOLEAN : HandleKeyEvent(key, mod, state)
  \/ \E step \in KeyTimeSteps : UpdateTime(step)
  \/ AddDialog
  \/ RemoveDialog
  \/ ReStack

SpecKeys == InitDialog /\ [][NextKeys]_vars

\* ------------------------------------------------------------ frame buffer
\* FrameBuffer: the on-screen message.  The event handler has left its state
\* NONE by the time the display exists; the states with a console report the
\* console's frame rate (Console::getFramerate, a positive quotient), the
\* launcher runs without a console and reports 0.
MaxFbCalls == 2                \* calls on the frame buffer other than the per-frame updates

EventHandlerStates ==
  {"EMULATION", "PAUSE", "OPTIONSMENU", "CMDMENU", "TIMEMACHINE", "LAUNCHER", "DEBUGGER"}
ConsoleFrameRates == {10, 15}  \* tenths of a frame per second
FrameRates(state) == IF state = "LAUNCHER" THEN {0} ELSE ConsoleFrameRates

\* uInt32(f) of a non-negative float given in tenths.
Truncate(tenths) == tenths \div 10

\* FrameBuffer::showMessage(message, position, force) on myMsg.
showMessage(m, rate, ui, force) ==
  IF ~m.surface \/ ~(force \/ ui)
    THEN m
    ELSE [m EXCEPT !.counter = IF Truncate(rate) * 2 = 0 THEN 60 ELSE Truncate(rate) * 2,
                   !.enabled = TRUE]

\* drawMessage() without the countdown.
drawMessage_NoCountdown(m) ==
  IF m.counter = 0
    THEN [myMsg |-> [m EXCEPT !.enabled = FALSE], drew |-> FALSE, result |-> TRUE]
    ELSE IF m.counter < 0
      THEN [myMsg |-> [m EXCEPT !.enabled = FALSE], drew |-> FALSE, result |-> FALSE]
      ELSE [myMsg |-> m, drew |-> TRUE, result |-> TRUE]

\* FrameBuffer::drawMessage(): the message afterwards, whether it was drawn,
\* and the value returned.
drawMessage(m) ==
  IF m.counter = 0
    THEN [myMsg |-> [m EXCEPT !.enabled = FALSE], drew |-> FALSE, result |-> TRUE]
    ELSE IF m.counter < 0
      THEN [myMsg |-> [m EXCEPT !.enabled = FALSE], drew |-> FALSE, result |-> FALSE]
      ELSE [myMsg |-> [m EXCEPT !.counter = @ - 1], drew |-> TRUE, result |-> TRUE]

\* FrameBuffer::update(force) in event handler state 'state'; 'redraw' is what
\* the dialog of that state answers to needsRedraw()/draw().
update(m, paused, state, rate, ui, force, redraw) ==
  LET forced == force \/ m.counter >= 0
      m1 == IF m.counter = 0 THEN [m EXCEPT !.counter = -1] ELSE m
  IN  IF state \in {"NONE", "EMULATION"}
        THEN [myMsg |-> m1, myPausedCount |-> paused, forced |-> forced,
              shown |-> FALSE, drew |-> FALSE, rendered |-> FALSE]
        ELSE
          LET show == state = "PAUSE" /\ paused <= 0
              m2 == IF show THEN showMessage(m1, rate, ui, FALSE) ELSE m1
              p2 == IF state # "PAUSE" THEN paused
                    ELSE IF paused <= 0 THEN Truncate(7 * rate) ELSE paused - 1
              force2 == IF state = "PAUSE" THEN forced ELSE forced \/ redraw
              d == IF m2.enabled THEN drawMessage(m2)
                   ELSE [myMsg |-> m2, drew |-> FALSE, result |-> FALSE]
          IN  [myMsg |-> d.myMsg, myPausedCount |-> p2, forced |-> forced,
               shown |-> show /\ m2 # m1, drew |-> d.drew,
               rendered |-> force2 \/ d.result]

FbStep(op, state, force, r, armed, counts) ==
  fbCall' = [NoFbCall EXCEPT
               !.op = op, !.state = state, !.force = force, !.armed = armed,
               !.forced = r.forced, !.shown = r.shown, !.drew = r.drew,
               !.rendered = r.rendered, !.before = myMsg,
               !.calls = IF counts THEN fbCall.calls + 1 ELSE fbCall.calls]

NoUpdate == [forced |-> FALSE, shown |-> FALSE, drew |-> FALSE, rendered |-> FALSE]

\* showMessage(message, position, force).
ShowMessage(force) ==
  /\ fbCall.calls < MaxFbCalls
  /\ myMsg' = showMessage(myMsg, frameRate, uimessages, force)
  /\ FbStep("showMessage", ehState, force, NoUpdate, myMsg.surface /\ (force \/ uimessages), TRUE)
  /\ UNCHANGED << ehState, frameRate, uimessages, myPausedCount >>
  /\ UNCHANGED videoVars
  /\ UNCHANGED notFb

\* update(force), once per frame of the main loop.
Update(force, redraw) ==
  /\ \E r \in {update(myMsg, myPausedCount, ehState, frameRate, uimessages, force, redraw)} :
       /\ myMsg' = r.myMsg
       /\ myPausedCount' = r.myPausedCount
       /\ FbStep("update", ehState, force, r, FALSE, FALSE)
  /\ UNCHANGED << ehState, frameRate, uimessages >>
  /\ UNCHANGED videoVars
  /\ UNCHANGED notFb

\* updateInEmulationMode(framesPerSecond), once per emulated frame.
UpdateInEmulationMode ==
  /\ ehState = "EMULATION"
  /\ \E d \in {IF myMsg.enabled THEN drawMessage(myMsg)
               ELSE [myMsg |-> myMsg, drew |-> FALSE, result |-> FALSE]} :
       /\ myMsg' = d.myMsg
       /\ FbStep("updateInEmulationMode", ehState, FALSE,
                 [forced |-> TRUE, shown |-> FALSE, drew |-> d.drew, rendered |-> TRUE],
                 FALSE, FALSE)
  /\ myPausedCount' = 0
  /\ UNCHANGED << ehState, frameRate, uimessages >>
  /\ UNCHANGED videoVars
  /\ UNCHANGED notFb

\* The event handler enters 'state' and calls stateChanged(state).
StateChanged(state, rate) ==
  /\ fbCall.calls < MaxFbCalls
  /\ state # ehState
  /\ rate \in FrameRates(state)
  /\ ehState' = state
  /\ frameRate' = rate
  /\ \E r \in {update([myMsg EXCEPT !.enabled = FALSE, !.counter = 0], myPausedCount,
                      state, rate, uimessages, TRUE, FALSE)} :
       /\ myMsg' = r.myMsg
       /\ myPausedCount' = r.myPausedCount
       /\ FbStep("stateChanged", state, TRUE, r, FALSE, TRUE)
  /\ UNCHANGED uimessages
  /\ UNCHANGED videoVars
  /\ UNCHANGED notFb

\* enableMessages(enable).
EnableMessages(enable) ==
  /\ fbCall.calls < MaxFbCalls
  /\ IF enable
       THEN /\ UNCHANGED << myMsg, myPausedCount >>
            /\ FbStep("enableMessages", ehState, FALSE, NoUpdate, FALSE, TRUE)
       ELSE \E r \in {update([myMsg EXCEPT !.enabled = FALSE, !.counter = 0], myPausedCount,
                             ehState, frameRate, uimessages, TRUE, FALSE)} :
              /\ myMsg' = r.myMsg
              /\ myPausedCount' = r.myPausedCount
              /\ FbStep("disableMessages", ehState, TRUE, r, FALSE, TRUE)
  /\ UNCHANGED << ehState, frameRate, uimessages >>
  /\ UNCHANGED videoVars
  /\ UNCHANGED notFb

\* setPauseDelay().
SetPauseDelay ==
  /\ fbCall.calls < MaxFbCalls
  /\ myPausedCount' = Truncate(2 * frameRate)
  /\ FbStep("setPauseDelay", ehState, FALSE, NoUpdate, FALSE, TRUE)
  /\ UNCHANGED << ehState, frameRate, uimessages, myMsg >>
  /\ UNCHANGED videoVars
  /\ UNCHANGED notFb

\* The frame buffer once its display exists.
FbConstructed ==
  /\ ehState \in EventHandlerStates
  /\ frameRate \in FrameRates(ehState)
  /\ uimessages \in BOOLEAN
  /\ myMsg = [enabled |-> FALSE, counter |-> 0, surface |-> TRUE]
  /\ myPausedCount = 0
  /\ soundMute = FALSE /\ myDisplays = << >> /\ myDesktopSize = << 0, 0 >>
  /\ myWindowedModeList = NewVideoModeList /\ myFullscreenModeLists = << >>
  /\ myCurrentModeList = "none" /\ fullScreen = FALSE
  /\ videoSettings = [fullscreen |-> FALSE, zoom |-> 0, aspect |-> 0]
  /\ fbCall = NoFbCall

InitMessage ==
  /\ FbConstructed
  /\ ResamplerAbsent /\ BufferAbsent /\ CartAbsent /\ ConsoleAbsent
  /\ PaletteAbsent /\ TiaAbsent /\ DialogAbsent /\ FormatAbsent

Frame == \E force, redraw \in BOOLEAN : Update(force, redraw)

NextMessage ==
  \/ \E force \in BOOLEAN : ShowMessage(force)
  \/ Frame
  \/ UpdateInEmulationMode
  \/ \E state \in EventHandlerStates, rate \in ConsoleFrameRates \cup {0} :
       StateChanged(state, rate)
  \/ \E enable \in BOOLEAN : EnableMessages(enable)
  \/ SetPauseDelay

SpecMessage == InitMessage /\ [][NextMessage]_vars

\* The main loop keeps calling update(), and the emulation keeps producing frames.
SpecMessageFair ==
  SpecMessage /\ WF_vars(Frame) /\ WF_vars(UpdateInEmulationMode)

\* ------------------------------------------------------- video modes
\* FrameBuffer built with WINDOWED_SUPPORT, on a system with one display.  Of
\* a mode's image rectangle only the width is kept, which sets the screen
\* width of a windowed mode.
MaxVideoCalls == 3             \* calls that set a video mode

kFBMinW == 640
kFBMinH == 480
kTIAMinW == 320
kTIAMinH == 210

DisplaySizes == { <<320, 240>>, <<640, 480>>, <<1280, 1024>> }   \* what queryHardware reports
TiaSizes == { <<320, 210>>, <<320, 256>> }      \* base sizes of a TIA screen
UiSizes == { <<640, 480>>, <<1280, 960>> }      \* base sizes of the launcher and the debugger
Aspects == {90, 100}           \* the settings 'tia.aspectn'/'tia.aspectp', in percent
Zooms == {1, 2, 3}             \* the setting 'tia.zoom'
Directions == {-1, 0, 1}

Larger(a, b) == IF a > b THEN a ELSE b

tiaMode(state) == state \notin {"DEBUGGER", "LAUNCHER"}
BaseSizes(state) == IF tiaMode(state) THEN TiaSizes ELSE UiSizes

RECURSIVE maxWindowSizeLoop(_, _, _, _, _)
maxWindowSizeLoop(baseWidth, baseHeight, screenWidth, screenHeight, multiplier) ==
  IF baseWidth * multiplier > screenWidth \/ baseHeight * multiplier > screenHeight
    THEN multiplier
    ELSE maxWindowSizeLoop(baseWidth, baseHeight, screenWidth, screenHeight, multiplier + 1)

maxWindowSizeForScreen(baseWidth, baseHeight, screenWidth, screenHeight) ==
  LET multiplier == maxWindowSizeLoop(baseWidth, baseHeight, screenWidth, screenHeight, 1)
  IN  IF multiplier > 1 THEN multiplier - 1 ELSE 1

\* VideoMode::VideoMode(iw, ih, sw, sh, full, z, desc).
VideoMode(iw, ih, sw, sh, full, z) ==
  LET w == Larger(sw, kTIAMinW)
      h == Larger(sh, kTIAMinH)
  IN  [fsIndex |-> full, zoom |-> z, imageWidth |-> Min(iw, w), screen |-> << w, h >>]

\* VideoMode::applyAspectCorrection(aspect, stretch): a windowed mode takes
\* the corrected image width as its screen width, a fullscreen mode keeps its
\* screen.
applyAspectCorrection(mode, aspect) ==
  LET iw == (mode.imageWidth * aspect) \div 100
  IN  IF mode.fsIndex # -1
        THEN mode
        ELSE [mode EXCEPT !.imageWidth = iw, !.screen = << iw, mode.screen[2] >>]

\* The lowest zoom of a windowed TIA mode.
FirstZoom(desktop) == IF desktop[1] < kFBMinW \/ desktop[2] < kFBMinH THEN 1 ELSE 2

\* FrameBuffer::setAvailableVidModes(baseWidth, baseHeight) on
\* v = {windowed, fullscreen, current}: the lists are refilled, their myIdx stays.
setAvailableVidModes(v, baseWidth, baseHeight, state, desktop, displays, aspect) ==
  LET firstZoom == FirstZoom(desktop)
      maxZoom == maxWindowSizeForScreen(baseWidth, baseHeight, desktop[1], desktop[2])
      lists == [i \in 1..Len(displays) |->
                  IF i <= Len(v.fullscreen) THEN v.fullscreen[i] ELSE NewVideoModeList]
      fsZoom(i) == maxWindowSizeForScreen(baseWidth, baseHeight, displays[i][1], displays[i][2])
  IN  IF tiaMode(state)
        THEN [v EXCEPT
                !.windowed.myModeList =
                   [k \in 1..(maxZoom - firstZoom + 1) |->
                      applyAspectCorrection(
                        VideoMode(baseWidth * (firstZoom + k - 1), baseHeight * (firstZoom + k - 1),
                                  baseWidth * (firstZoom + k - 1), baseHeight * (firstZoom + k - 1),
                                  -1, firstZoom + k - 1),
                        aspect)],
                !.fullscreen =
                   [i \in 1..Len(displays) |->
                      [lists[i] EXCEPT !.myModeList =
                         << applyAspectCorrection(
                              VideoMode(baseWidth * fsZoom(i), baseHeight * fsZoom(i),
                                        displays[i][1], displays[i][2], i - 1, 1),
                              aspect) >>]]]
        ELSE [v EXCEPT
                !.windowed.myModeList =
                   << VideoMode(baseWidth, baseHeight, baseWidth, baseHeight, -1, 1) >>,
                !.fullscreen =
                   [i \in 1..Len(displays) |->
                      [lists[i] EXCEPT !.myModeList =
                         << VideoMode(baseWidth, baseHeight,
                                      displays[i][1], displays[i][2], i - 1, 1) >>]]]

\* VideoModeList::setZoom(zoom), next(), previous(); myIdx counts from 0.
setZoom(list, zoom) ==
  LET hits == {i \in 1..Len(list.myModeList) : list.myModeList[i].zoom = zoom}
  IN  [list EXCEPT !.myIdx = IF hits = {} THEN 0
                              ELSE (CHOOSE i \in hits : \A j \in hits : i <= j) - 1]

\* next() divides by the size of the list: with an empty list the behaviour is
\* undefined, and any index may result.
UndefinedIndexes == {-1, 0}
next(list) ==
  IF Len(list.myModeList) = 0
    THEN {[list EXCEPT !.myIdx = i] : i \in UndefinedIndexes}
    ELSE {[list EXCEPT !.myIdx = (list.myIdx + 1) % Len(list.myModeList)]}

previous(list) ==
  {[list EXCEPT !.myIdx = IF list.myIdx - 1 < 0 THEN Len(list.myModeList) - 1
                          ELSE list.myIdx - 1]}

\* VideoModeList::current(): myModeList[myIdx]; outside the list the read is
\* undefined and yields whatever the memory holds.
ValidIndex(list) == 0 <= list.myIdx /\ list.myIdx < Len(list.myModeList)
UndefinedModes == { VideoMode(0, 0, 0, 0, -1, 1), VideoMode(4096, 4096, 4096, 4096, -1, 1) }
current(list) ==
  IF ValidIndex(list) THEN {list.myModeList[list.myIdx + 1]} ELSE UndefinedModes

SelectedList(v) == IF v.current = "windowed" THEN v.windowed ELSE v.fullscreen[1]
WithSelected(v, list) ==
  IF v.current = "windowed" THEN [v EXCEPT !.windowed = list]
  ELSE [v EXCEPT !.fullscreen[1] = list]

\* FrameBuffer::getSavedVidMode(fullscreen) up to the read of current().
getSavedVidMode(v, state, fullscreen, zoom) ==
  LET v1 == [v EXCEPT !.current = IF fullscreen THEN "fullscreen" ELSE "windowed"]
  IN  WithSelected(v1, setZoom(SelectedList(v1), IF tiaMode(state) THEN zoom ELSE 1))

Video == [windowed |-> myWindowedModeList, fullscreen |-> myFullscreenModeLists,
          current |-> myCurrentModeList]

ReadOf(v) == [list |-> v.current, size |-> Len(SelectedList(v).myModeList),
              idx |-> SelectedList(v).myIdx]

VideoStep(op, v, moved, status) ==
  /\ myWindowedModeList' = v.windowed
  /\ myFullscreenModeLists' = v.fullscreen
  /\ myCurrentModeList' = v.current
  /\ fbCall' = [NoFbCall EXCEPT
                  !.op = op, !.state = ehState, !.before = myMsg, !.mute = soundMute,
                  !.read = IF status = "returned" THEN NoRead ELSE ReadOf(v),
                  !.moved = moved, !.status = status,
                  !.calls = fbCall.calls + 1]

\* createDisplay(title, width, height); 'ok' is what setVideoMode answers.
CreateDisplay(width, height, ok) ==
  /\ fbCall.calls < MaxVideoCalls
  /\ << width, height >> \in BaseSizes(ehState)
  /\ \E v \in {getSavedVidMode(
                 setAvailableVidModes(Video, width, height, ehState, myDesktopSize,
                                      myDisplays, videoSettings.aspect),
                 ehState, videoSettings.fullscreen, videoSettings.zoom)} :
       \E mode \in current(SelectedList(v)) :
         IF width <= mode.screen[1] /\ height <= mode.screen[2]
           THEN IF ok
                  THEN /\ fullScreen' = (mode.fsIndex # -1)
                       /\ videoSettings' = [videoSettings EXCEPT !.fullscreen = mode.fsIndex # -1]
                       /\ soundMute' = soundMute
                       /\ myMsg' = [myMsg EXCEPT !.counter = 0, !.surface = TRUE]
                       /\ VideoStep("createDisplay", v, NoMove, "Success")
                  ELSE /\ soundMute' = TRUE
                       /\ UNCHANGED << fullScreen, videoSettings, myMsg >>
                       /\ VideoStep("createDisplay", v, NoMove, "FailNotSupported")
           ELSE /\ UNCHANGED << soundMute, fullScreen, videoSettings, myMsg >>
                /\ VideoStep("createDisplay", v, NoMove, "FailTooLarge")
  /\ UNCHANGED << ehState, frameRate, uimessages, myPausedCount, myDisplays, myDesktopSize >>
  /\ UNCHANGED notFb

\* setFullscreen(enable), once the display exists.
SetFullscreen(enable, ok) ==
  /\ fbCall.calls < MaxVideoCalls
  /\ myMsg.surface
  /\ IF ehState \notin {"EMULATION", "LAUNCHER", "DEBUGGER", "PAUSE"}
       THEN /\ VideoStep("setFullscreen", Video, NoMove, "returned")
            /\ UNCHANGED << soundMute, fullScreen, videoSettings >>
       ELSE \E v \in {getSavedVidMode(Video, ehState, enable, videoSettings.zoom)} :
              \E mode \in current(SelectedList(v)) :
                /\ IF ok
                     THEN /\ fullScreen' = (mode.fsIndex # -1)
                          /\ videoSettings' =
                               [videoSettings EXCEPT !.fullscreen = mode.fsIndex # -1]
                     ELSE UNCHANGED << fullScreen, videoSettings >>
                /\ soundMute' = soundMute
                /\ VideoStep("setFullscreen", v, NoMove, IF ok THEN "set" ELSE "failed")
  /\ UNCHANGED << ehState, frameRate, uimessages, myMsg, myPausedCount, myDisplays,
                  myDesktopSize >>
  /\ UNCHANGED notFb

\* changeWindowedVidMode(direction), once the display exists.
ChangeWindowedVidMode(direction, ok) ==
  /\ fbCall.calls < MaxVideoCalls
  /\ myMsg.surface
  /\ IF ~tiaMode(ehState) \/ fullScreen \/ direction \notin {-1, 1}
       THEN /\ VideoStep("changeWindowedVidMode", Video, NoMove, "returned")
            /\ UNCHANGED << soundMute, videoSettings, myMsg >>
       ELSE \E list \in (IF direction = 1 THEN next(SelectedList(Video))
                         ELSE previous(SelectedList(Video))) :
              \E mode \in current(list) :
                /\ IF ok
                     THEN /\ myMsg' = showMessage(myMsg, frameRate, uimessages, FALSE)
                          /\ videoSettings' = [videoSettings EXCEPT !.zoom = mode.zoom]
                     ELSE UNCHANGED << videoSettings, myMsg >>
                /\ soundMute' = soundMute
                /\ VideoStep("changeWindowedVidMode", WithSelected(Video, list),
                             [direction |-> direction, size |-> Len(list.myModeList),
                              from |-> SelectedList(Video).myIdx, to |-> list.myIdx],
                             IF ok THEN "changed" ELSE "failed")
  /\ UNCHANGED << ehState, frameRate, uimessages, myPausedCount, myDisplays, myDesktopSize,
                  fullScreen >>
  /\ UNCHANGED notFb

\* The frame buffer after initialize(), before its first createDisplay.
VideoInitialized ==
  /\ ehState \in EventHandlerStates
  /\ frameRate \in FrameRates(ehState)
  /\ uimessages = TRUE
  /\ myMsg = [enabled |-> FALSE, counter |-> -1, surface |-> FALSE]
  /\ myPausedCount = 0
  /\ soundMute \in BOOLEAN
  /\ \E size \in DisplaySizes :
       /\ myDisplays = << size >>
       /\ myDesktopSize = << Larger(size[1], kFBMinW), Larger(size[2], kFBMinH) >>
  /\ myWindowedModeList = NewVideoModeList /\ myFullscreenModeLists = << >>
  /\ myCurrentModeList = "none" /\ fullScreen = FALSE
  /\ videoSettings \in [fullscreen : BOOLEAN, zoom : Zooms, aspect : Aspects]
  /\ fbCall = NoFbCall

InitVideo ==
  /\ VideoInitialized
  /\ ResamplerAbsent /\ BufferAbsent /\ CartAbsent /\ ConsoleAbsent
  /\ PaletteAbsent /\ TiaAbsent /\ DialogAbsent /\ FormatAbsent

BaseWidths == {320, 640, 1280}
BaseHeights == {210, 256, 480, 960}

NextVideo ==
  \/ \E width \in BaseWidths, height \in BaseHeights, ok \in BOOLEAN :
       CreateDisplay(width, height, ok)
  \/ \E enable, ok \in BOOLEAN : SetFullscreen(enable, ok)
  \/ \E direction \in Directions, ok \in BOOLEAN : ChangeWindowedVidMode(direction, ok)

SpecVideo == InitVideo /\ [][NextVideo]_vars

\* ------------------------------------------------------- console format
\* Console: the format selected by the constructor, setFormat and
\* toggleFormat.  Of what setFormat calls, redetectFrameLayout and the TIA
\* update are modelled; the palette, the video and the audio it sets up again
\* belong to other objects and leave the console's format members alone.
MaxFormatCalls == 2            \* the constructor and the calls after it

FormatNames == << "NTSC", "PAL", "SECAM", "NTSC50", "PAL60", "SECAM60" >>
FormatTimings == << "ntsc", "pal", "secam", "ntsc", "pal", "secam" >>
FormatProperties == {"AUTO"} \cup DisplayFormats   \* values of the property Display_Format
Formats == 0..6                \* what the callers of setFormat pass

\* What the chip shows while a format is detected: a steady NTSC or PAL picture.
FormatFrames == {frames \in FramePatterns : Len(frames.lines) = 1}

FormatFields ==
  [current |-> myCurrentFormat, timing |-> myConsoleTiming,
   property |-> displayFormatProperty]

\* The constructor's chain of tests on myDisplayFormat.
formatOf(f, displayFormat) ==
  IF \E i \in 1..6 : FormatNames[i] = displayFormat
    THEN LET i == CHOOSE i \in 1..6 : FormatNames[i] = displayFormat
         IN  [f EXCEPT !.current = i, !.timing = FormatTimings[i]]
    ELSE f

\* Console::Console from the read of Display_Format on; 'sysReset' is the default
\* argument of the two autodetect functions.
console(s, f, property, rominfo, ystartZero, frames, sysReset) ==
  LET detect == property = "AUTO" \/ rominfo
      s1 == IF detect THEN autodetectFrameLayout([s EXCEPT !.format = property], sysReset, frames)
            ELSE [s EXCEPT !.format = property]
      f1 == [f EXCEPT !.property = property,
                      !.current = IF detect /\ property = "AUTO" THEN 0 ELSE @]
      s2 == IF ystartZero THEN autodetectYStart(s1, sysReset, frames) ELSE s1
  IN  [s |-> s2, f |-> formatOf(f1, s2.format)]

\* Console::setFormat(format).
setFormat(s, f, format, frames, sysReset) ==
  IF f.current = format
    THEN [s |-> s, f |-> f]
    ELSE IF format = 0
      THEN LET s1 == CHOOSE x \in {redetectFrameLayout(s, frames, sysReset)} : TRUE
               s2 == AfterRun(s1, tiaUpdate(Running(s1), FrameAt(frames, 0)))
           IN  [s |-> s2,
                f |-> [current |-> 0,
                       timing |-> IF s2.format = "PAL" THEN "pal" ELSE "ntsc",
                       property |-> "AUTO"]]
      ELSE IF format \in 1..6
        THEN [s |-> [s EXCEPT !.format = FormatNames[format]],
              f |-> [current |-> format, timing |-> FormatTimings[format],
                     property |-> FormatNames[format]]]
        ELSE [s |-> s, f |-> [f EXCEPT !.current = format, !.property = ""]]

\* Console::toggleFormat(direction) stepping up without the wrap to 0.
toggleFormat_NoWrap(s, f, direction, frames, sysReset) ==
  setFormat(s, f,
            IF direction = 1 THEN f.current + 1
            ELSE IF direction = -1 THEN (IF f.current > 0 THEN f.current - 1 ELSE 6)
            ELSE f.current,
            frames, sysReset)

\* Console::toggleFormat(direction).
toggleFormat(s, f, direction, frames, sysReset) ==
  setFormat(s, f,
            IF direction = 1 THEN (f.current + 1) % 7
            ELSE IF direction = -1 THEN (IF f.current > 0 THEN f.current - 1 ELSE 6)
            ELSE f.current,
            frames, sysReset)

FormatStep(op, direction, given, r) ==
  /\ ConsoleWrite(op, r.s, given)
  /\ myCurrentFormat' = r.f.current
  /\ myConsoleTiming' = r.f.timing
  /\ displayFormatProperty' = r.f.property
  /\ formatCall' = [op |-> op, direction |-> direction, given |-> given,
                    before |-> [current |-> myCurrentFormat, timing |-> myConsoleTiming,
                                property |-> displayFormatProperty,
                                format |-> myDisplayFormat],
                    calls |-> formatCall.calls + 1]
  /\ UNCHANGED << paletteVars, tiaVars, dialogVars, fbVars >>
  /\ UNCHANGED serializer

\* The constructor's body.
NewConsole(property, rominfo, ystartZero, frames, sysReset) ==
  /\ formatCall.op = "none"
  /\ \E r \in {console(ConsoleFields, FormatFields, property, rominfo, ystartZero,
                       frames, sysReset)} :
       FormatStep("Console", 0, 0, r)

SetFormat(format, frames, sysReset) ==
  /\ formatCall.op # "none"
  /\ formatCall.calls < MaxFormatCalls
  /\ \E r \in {setFormat(ConsoleFields, FormatFields, format, frames, sysReset)} :
       FormatStep("setFormat", 0, format, r)

ToggleFormat(direction, frames, sysReset) ==
  /\ formatCall.op # "none"
  /\ formatCall.calls < MaxFormatCalls
  /\ \E r \in {toggleFormat(ConsoleFields, FormatFields, direction, frames, sysReset)} :
       FormatStep("toggleFormat", direction, 0, r)

\* The console's members as the constructor's initialiser list and the
\* creation of its parts leave them.
InitFormat ==
  /\ mySystem = 0
  /\ myLeftControl = 0 /\ myRightControl = 0 /\ mySwitches = 0
  /\ myDisplayFormat = ""
  /\ myAutodetectedYstart = 0
  /\ myYStartAutodetected = FALSE
  /\ frameManager = "FrameManager"
  /\ fastscbios \in BOOLEAN
  /\ serializer = NoSerializer
  /\ consoleCall = NoConsoleCall
  /\ myCurrentFormat = 0 /\ myConsoleTiming = "ntsc" /\ displayFormatProperty = ""
  /\ formatCall = NoFormatCall
  /\ CartConstructed /\ ResamplerAbsent /\ BufferAbsent
  /\ PaletteAbsent /\ TiaAbsent /\ DialogAbsent /\ FbAbsent

NextFormat ==
  \/ \E property \in FormatProperties, rominfo, ystartZero, sysReset \in BOOLEAN,
        frames \in FormatFrames :
       NewConsole(property, rominfo, ystartZero, frames, sysReset)
  \/ \E format \in Formats, frames \in FormatFrames, sysReset \in BOOLEAN :
       SetFormat(format, frames, sysReset)
  \/ \E direction \in Directions, frames \in FormatFrames, sysReset \in BOOLEAN :
       ToggleFormat(direction, frames, sysReset)

SpecFormat == InitFormat /\ [][NextFormat]_vars

\* ================================================================= claims
\* What the last call had to do, derived from the state it started in.
Fs == myFormatFrom.sampleRate
Ft == myFormatTo.sampleRate
D == Ft \div GCD(Fs, Ft)
Max(S) == CHOOSE x \in S : \A y \in S : y <= x

CallPolls == IF call.polled THEN 1 ELSE 0
PollGaveFragment == call.polled /\ call.cb[1] # NullFragment
CallFragmentAtEntry == IF PollGaveFragment THEN call.cb[1] ELSE call.fragmentBefore
CallIndexAtEntry == IF PollGaveFragment THEN 0 ELSE call.indexBefore
CallOutputs ==
  IF CallFragmentAtEntry = NullFragment THEN 0
  ELSE IF myFormatTo.stereo THEN call.length \div 2 ELSE call.length
CallShifts == (call.timeBefore + CallOutputs * Fs) \div Ft
CallExhaustions == (CallIndexAtEntry + CallShifts) \div myFormatFrom.fragmentSize
ExhaustionResults == SubSeq(call.cb, CallPolls + 1, Len(call.cb))
\* The current fragment after the first m exhaustions of the call.
CurrentAfter(m) ==
  LET hits == {e \in 1..m : ExhaustionResults[e] # NullFragment}
  IN IF hits = {} THEN CallFragmentAtEntry ELSE ExhaustionResults[Max(hits)]

\* C1: every position 0..length-1 of the caller's buffer has been written when
\* fillFragment returns, in every state and for every format combination.
C1_EveryPositionWritten ==
  /\ Len(fragment) = call.length
  /\ \A p \in 1..Len(fragment) : fragment[p].kind # "unwritten"

\* C2: a call does a bounded amount of work whatever the producer answers: one
\* loop iteration per output sample and per shifted source sample, one callback
\* invocation per exhausted fragment plus at most one at the start, and a null
\* answer is recorded as an underrun instead of being asked again.
C2_BoundedWork ==
  /\ Len(call.samples) = CallOutputs
  /\ Len(call.shifted) = CallShifts
  /\ call.steps = CallOutputs + CallShifts
  /\ Len(call.cb) = CallPolls + CallExhaustions
  /\ Len(call.cb) <= 1 + CallShifts
  /\ (call.cb # << >> /\ call.cb[Len(call.cb)] = NullFragment) => myIsUnderrun

\* A starved call: the producer answered null every time, twice or more, and
\* the call still produced its output from the fragment it had.
C2_Witness ==
  /\ call.fragmentBefore # NullFragment
  /\ Len(call.cb) >= 2
  /\ \A n \in 1..Len(call.cb) : call.cb[n] = NullFragment
  /\ Len(call.samples) >= 2
  /\ myIsUnderrun

\* C3: the callback is invoked once per exhausted fragment and, while in
\* underrun, once at the start of a call; a non-null result becomes the current
\* fragment read from index 0, a null result keeps the previous fragment, which
\* is read again from index 0.
C3_ExhaustionHandling ==
  hist.calls > 0 =>
    /\ call.polled = call.underrunBefore
    /\ Len(call.cb) = CallPolls + CallExhaustions
    /\ myCurrentFragment = CurrentAfter(CallExhaustions)
    /\ myIsUnderrun = IF call.cb = << >> THEN call.underrunBefore
                      ELSE call.cb[Len(call.cb)] = NullFragment
    /\ myFragmentIndex = (CallIndexAtEntry + CallShifts) % myFormatFrom.fragmentSize
    /\ \A j \in 1..Len(call.shifted) :
         LET pos == CallIndexAtEntry + (j - 1)
             idx == pos % myFormatFrom.fragmentSize
         IN call.shifted[j].pcm =
              FragmentData(CurrentAfter(pos \div myFormatFrom.fragmentSize),
                           IF myFormatFrom.stereo THEN 2 * idx ELSE idx)

\* An underrun inside a call: an exhaustion answered null, the stale fragment
\* was read again, and a later exhaustion of the same call brought a fragment.
C3_Witness ==
  /\ hist.calls > 0
  /\ \E e \in 1..Len(ExhaustionResults) : \E f \in (e + 1)..Len(ExhaustionResults) :
       /\ ExhaustionResults[e] = NullFragment
       /\ ExhaustionResults[f] # NullFragment
       /\ myCurrentFragment = ExhaustionResults[f]
  /\ call.fragmentBefore # NullFragment

\* C4: while the callback has never returned a fragment, a call writes zeros to
\* all `length` positions and leaves the kernel index, the time index, the
\* fragment index and the history buffers as constructed.
C4_SilenceBeforeFirstFragment ==
  hist.fragments = 0 =>
    /\ fragment = [p \in 1..call.length |-> Silence]
    /\ myCurrentKernelIndex = 0
    /\ myTimeIndex = 0
    /\ myFragmentIndex = 0
    /\ myBufferL \in {NoBuffer, ConvolutionBuffer(myKernelSize)}
    /\ myBufferR \in {NoBuffer, ConvolutionBuffer(myKernelSize)}
    /\ myBuffer \in {NoBuffer, ConvolutionBuffer(myKernelSize)}
    /\ hist.outputs = 0 /\ hist.shifts = 0

\* Two calls, the second a non-empty one, and the producer never delivered.
C4_Witness ==
  /\ hist.fragments = 0
  /\ hist.calls >= 2
  /\ call.length >= 2
  /\ Len(call.cb) = 1

\* C5: the number of precomputed kernels is Ft / gcd(Fs, Ft), and
\* reducedDenominator finds it in fewer than 2 * min(Fs, Ft) loop iterations.
C5_KernelCount ==
  LET run == reducedDenominatorRun(Fs, Ft)
  IN /\ myPrecomputedKernelCount = Ft \div GCD(Fs, Ft)
     /\ run.d = myPrecomputedKernelCount
     /\ run.steps < 2 * Min(Fs, Ft)
     /\ DOMAIN myPrecomputedKernels = 0..(myPrecomputedKernelCount - 1)

\* A ratio that reduces without becoming 1/1 or n/1.
C5_Witness ==
  /\ GCD(Fs, Ft) > 1
  /\ myPrecomputedKernelCount > 1
  /\ Fs % Ft # 0
  /\ hist.calls > 0

\* The 0-based number, counted since construction, of the j-th output sample
\* of the last call, and the positions of the caller's buffer it was written to.
OutputNumber(j) == hist.outputs - Len(call.samples) + (j - 1)
OutputPositions(j) == IF myFormatTo.stereo THEN {2 * j - 1, 2 * j} ELSE {j}
Taps(terms) == [i \in 1..Len(terms) |-> terms[i].tap]
\* The term lists (one per convolved channel) behind buffer position p.
TermLists(p) == {fragment[p].l} \cup (IF fragment[p].kind = "avg" THEN {fragment[p].r} ELSE {})

\* C6: the kernel index stays in 0..D-1 and output sample number k is
\* convolved with kernel k mod D.
C6_KernelCycle ==
  /\ myCurrentKernelIndex \in 0..(D - 1)
  /\ myCurrentKernelIndex = hist.outputs % D
  /\ \A j \in 1..Len(call.samples) :
       /\ call.samples[j].kernel = OutputNumber(j) % D
       /\ \A p \in OutputPositions(j) : \A terms \in TermLists(p) :
            Taps(terms) = myPrecomputedKernels[OutputNumber(j) % D]

\* More than one period of a ratio with several kernels, over two calls.
C6_Witness ==
  /\ D >= 2
  /\ hist.outputs > D
  /\ hist.calls >= 2
  /\ Len(call.samples) >= 1

\* C7: after k output samples floor(k * Fs / Ft) source samples have been
\* shifted in and the time index is (k * Fs) mod Ft, below Ft; an output
\* sample shifts exactly when its accumulated time index reaches Ft.
C7_TimeIndex ==
  /\ hist.shifts = (hist.outputs * Fs) \div Ft
  /\ Len(hist.input) = hist.shifts
  /\ myTimeIndex = (hist.outputs * Fs) % Ft
  /\ myTimeIndex < Ft
  /\ \A j \in 1..Len(call.samples) :
       /\ call.samples[j].time = (OutputNumber(j) * Fs) % Ft
       /\ (call.samples[j].shift > 0) <=> (call.samples[j].time + Fs >= Ft)
       /\ call.samples[j].shift = (call.samples[j].time + Fs) \div Ft

\* A ratio above one that is no integer: some outputs shift one sample, some two.
C7_Witness ==
  /\ Fs > Ft
  /\ Fs % Ft # 0
  /\ hist.outputs >= 3
  /\ \E j \in 1..Len(call.samples) : call.samples[j].shift >= 2
  /\ \E j \in 1..Len(call.samples) : call.samples[j].shift = 1

\* C8: kernel i is precomputed for the time offset (i * Fs) mod Ft, which is
\* the time index of every output sample convolved with it, and (kernel index,
\* time index) is (0, 0) exactly after every multiple of D output samples.
C8_PhaseLocked ==
  /\ \A i \in 0..(myPrecomputedKernelCount - 1) :
       myPrecomputedKernels[i][myKernelParameter].num = (i * Fs) % Ft
  /\ \A j \in 1..Len(call.samples) :
       myPrecomputedKernels[call.samples[j].kernel] =
         [jj \in 1..myKernelSize |->
            KernelTap(call.samples[j].time, jj - 1, myKernelParameter, Ft)]
  /\ (myCurrentKernelIndex = 0 /\ myTimeIndex = 0) <=> (hist.outputs % D = 0)

\* Two full periods of a ratio with several kernels whose offsets wrap.
C8_Witness ==
  /\ D >= 2
  /\ Fs > 1
  /\ hist.outputs = 2 * D
  /\ Len(call.samples) >= 2
  /\ myCurrentKernelIndex = 0 /\ myTimeIndex = 0

\* A unity-ratio convolution that amounts to CLIPPING_FACTOR * expected: the
\* tap at argument 0 meets `expected`, every other tap sits at a nonzero
\* integer, where the Lanczos kernel is zero.
UnitySampleIs(terms, expected) ==
  \A i \in 1..Len(terms) :
    IF i = myKernelParameter
    THEN IsUnitTap(terms[i].tap) /\ terms[i].s = expected
    ELSE IsZeroTap(terms[i].tap)

\* Source sample number n (0-based, since construction) of a channel after its
\* high-pass filter; the buffer's initial zero for n < 0.
InputSample(name, n) ==
  IF n < 0 THEN ZeroSample
  ELSE IF n >= Len(hist.input) THEN [ch |-> "none", n |-> n, pcm |-> 0]
  ELSE HighPassApply(name, n, IF name = "R" THEN hist.input[n + 1].r ELSE hist.input[n + 1].l)

\* Every output sample of the last call shifts one source sample in and is the
\* input sample `delay` places back.
UnityOutputs(delay) ==
  \A j \in 1..Len(call.samples) :
    /\ call.samples[j].shift = 1
    /\ \A p \in OutputPositions(j) :
         /\ UnitySampleIs(fragment[p].l,
               InputSample(IF ~myFormatFrom.stereo THEN "M"
                           ELSE IF myFormatTo.stereo /\ p % 2 = 0 THEN "R" ELSE "L",
                           OutputNumber(j) - delay))
         /\ fragment[p].kind = "avg" =>
              UnitySampleIs(fragment[p].r, InputSample("R", OutputNumber(j) - delay))

\* C9 as stated: at unity ratio there is one kernel, every output sample
\* consumes one source sample, and output sample k is input sample k,
\* high-passed and scaled by CLIPPING_FACTOR.
C9_UnityPassThrough ==
  (Fs = Ft) => (myPrecomputedKernelCount = 1 /\ UnityOutputs(0))

\* C9 amended: at unity ratio there is one kernel, every output sample consumes
\* one source sample, and output sample k is input sample k - kernelParameter - 1,
\* high-passed and scaled by CLIPPING_FACTOR (silence for the first
\* kernelParameter + 1 outputs); every other tap sits at a nonzero integer,
\* where the Lanczos kernel is zero.
C9_UnityDelayed ==
  (Fs = Ft) => (myPrecomputedKernelCount = 1 /\ UnityOutputs(myKernelParameter + 1))

\* A unity-ratio run long enough for a real input sample to come out.
C9_Witness ==
  /\ Fs = Ft
  /\ Len(call.samples) >= 1
  /\ hist.outputs >= myKernelParameter + 2
  /\ \A p \in OutputPositions(Len(call.samples)) :
       fragment[p].l[myKernelParameter].s.ch # "zero"

\* A full-width convolution over the history of one channel.
FromChannel(terms, name) ==
  /\ Len(terms) = myKernelSize
  /\ \A i \in 1..Len(terms) : terms[i].s.ch \in {name, "zero"}

\* C10: stereo to mono averages the two convolved channels, mono to stereo
\* writes the one convolved sample to both channels of the frame, and equal
\* channel counts pass each channel through on its own.
C10_ChannelMapping ==
  \A j \in 1..Len(call.samples) :
    IF myFormatFrom.stereo /\ ~myFormatTo.stereo
    THEN /\ fragment[j].kind = "avg"
         /\ FromChannel(fragment[j].l, "L") /\ FromChannel(fragment[j].r, "R")
         /\ \A i \in 1..myKernelSize : fragment[j].l[i].s.n = fragment[j].r[i].s.n
    ELSE IF ~myFormatFrom.stereo /\ myFormatTo.stereo
    THEN /\ fragment[2 * j - 1].kind = "conv"
         /\ FromChannel(fragment[2 * j - 1].l, "M")
         /\ fragment[2 * j] = fragment[2 * j - 1]
    ELSE IF myFormatFrom.stereo
    THEN /\ fragment[2 * j - 1].kind = "conv" /\ FromChannel(fragment[2 * j - 1].l, "L")
         /\ fragment[2 * j].kind = "conv" /\ FromChannel(fragment[2 * j].l, "R")
    ELSE fragment[j].kind = "conv" /\ FromChannel(fragment[j].l, "M")

\* A down-mix of real samples of both channels.
C10_Witness ==
  /\ myFormatFrom.stereo /\ ~myFormatTo.stereo
  /\ Len(call.samples) >= 1
  /\ \E i \in 1..myKernelSize :
       fragment[Len(call.samples)].l[i].s.ch = "L" /\ fragment[Len(call.samples)].r[i].s.ch = "R"

\* ------------------------------------------------------------------
\* The samples a buffer of `size` slots has to hold after `values` were shifted
\* in: the last `size` of them, after as many initial zeros as are needed.
LastShifted(size, values) ==
  LET padded == [i \in 1..size |-> ZeroSample] \o values
  IN  SubSeq(padded, Len(padded) - size + 1, Len(padded))

\* The buffer read from myFirstIndex onward, wrapping at mySize.
Window(b) ==
  [i \in 1..b.mySize |-> b.myData[((b.myFirstIndex + (i - 1)) % b.mySize) + 1]]

\* C11: read from myFirstIndex onward (wrapping), the buffer holds, oldest
\* first, the last mySize values shifted in, padded at the old end with the
\* initial zeros; a shift drops exactly the oldest value of the window and
\* appends the new one at the young end.
C11_FifoWindow ==
  /\ Window(buffer) = LastShifted(buffer.mySize, shifted)
  /\ bufferCall.op = "shift" =>
       Window(buffer) = Tail(Window(bufferCall.before)) \o << shifted[Len(shifted)] >>

\* More values were shifted than the buffer has slots: the index has wrapped
\* and real values have been evicted.
C11_Witness ==
  /\ bufferCall.op = "shift"
  /\ Len(shifted) > buffer.mySize
  /\ buffer.myFirstIndex # 0

\* C12: convoluteWith returns the sum over i of kernel[i] times the i-th
\* oldest sample, kernel[0] with the oldest and kernel[mySize - 1] with the
\* newest, and leaves the buffer's contents and myFirstIndex as they were.
C12_Convolution ==
  bufferCall.op = "convoluteWith" =>
    /\ bufferCall.result =
         [i \in 1..buffer.mySize |->
            [tap |-> bufferCall.kernel[i], s |-> LastShifted(buffer.mySize, shifted)[i]]]
    /\ buffer = bufferCall.before

\* A convolution of a buffer whose oldest sample does not sit in slot 0.
C12_Witness ==
  /\ bufferCall.op = "convoluteWith"
  /\ buffer.myFirstIndex # 0
  /\ Len(shifted) > buffer.mySize

EmulatedNow == Emulated(ConsoleFields)

\* C14: after Console::save(s), further emulation (the game code emitting ROM
\* bytes and stuff entries included) and Console::load(s) of the intact
\* snapshot, the load succeeds and the complete emulated state, the
\* cartridge's included, equals its value at the save.
C14_RoundTrip ==
  consoleCall.op = "load" /\ consoleCall.given = serializer.data =>
    /\ consoleCall.result
    /\ EmulatedNow = serializer.at

\* C15: Console::load is all-or-nothing: when it returns false no part of the
\* console's state has changed, otherwise system, both controllers and the
\* switches all hold what the snapshot holds.
C15_AllOrNothing ==
  consoleCall.op = "load" =>
    IF consoleCall.result
      THEN /\ mySystem = consoleCall.given[1].chips
           /\ myLeftControl = consoleCall.given[2]
           /\ myRightControl = consoleCall.given[3]
           /\ mySwitches = consoleCall.given[4]
      ELSE EmulatedNow = consoleCall.before

\* C16: autodetectFrameLayout performs exactly 60 TIA updates and
\* autodetectYStart exactly 80, whatever the detector observes, and each
\* returns with a detected value (a display format; a start row).
C16_FixedUpdateCounts ==
  /\ consoleCall.op = "autodetectFrameLayout" =>
       /\ consoleCall.updates = 60
       /\ myDisplayFormat \in {"PAL", "NTSC"}
  /\ consoleCall.op = "autodetectYStart" =>
       /\ consoleCall.updates = 80
       /\ myYStartAutodetected
       /\ myAutodetectedYstart = consoleCall.given.row - 2

\* A layout detection whose detector classified frames long before the end.
C16_Witness ==
  /\ consoleCall.op = "autodetectFrameLayout"
  /\ consoleCall.classified = 60
  /\ consoleCall.updates = 60

\* C17: every TIA update of an autodetect function runs with the detector
\* installed as the TIA's frame manager; on return the frame manager is the
\* console's own FrameManager again and 'fastscbios' has its pre-call value.
C17_DetectorBracketed ==
  /\ consoleCall.op = "autodetectFrameLayout" =>
       consoleCall.managers = {"FrameLayoutDetector"}
  /\ consoleCall.op = "autodetectYStart" =>
       consoleCall.managers = {"YStartDetector"}
  /\ consoleCall.op \in {"autodetectFrameLayout", "autodetectYStart"} =>
       /\ frameManager = "FrameManager"
       /\ fastscbios = consoleCall.fastscbiosBefore

\* A start-row detection called with 'fastscbios' off.
C17_Witness ==
  /\ consoleCall.op = "autodetectYStart"
  /\ ~consoleCall.fastscbiosBefore
  /\ consoleCall.managers = {"YStartDetector"}
  /\ consoleCall.updates = 80

C19_SaveRunRestore ==
  consoleCall.op \in {"redetectFrameLayout", "redetectYStart"} =>
    /\ EmulatedNow = consoleCall.before
    /\ frameManager = "FrameManager"
    /\ fastscbios = consoleCall.fastscbiosBefore

\* ------------------------------------------------------------------
\* Address line k (0 = least significant) of a bus address.
AddressBit(address, k) == (address \div (2 ^ k)) % 2

\* The address of the last bus access, cut to its bits 0..12.
Low13 == cartCall.address % (2 ^ 13)

\* The target that bits 12 and 7 alone select.
Selected(address) ==
  IF AddressBit(address, 12) = 1 THEN "ROM"
  ELSE IF AddressBit(address, 7) = 1 THEN "RIOT"
  ELSE "TIA"

\* C20: peek and poke see only bits 0..12 of the address, so two addresses
\* equal in those bits are handled identically, and bits 12 and 7 alone
\* select the one target: A12=0,A7=0 the TIA, A12=0,A7=1 the RIOT, A12=1 the
\* cartridge ROM at address & 0x0fff (which a poke leaves as it is).
C20_AddressDecoding ==
  /\ cartCall.op = "peek" =>
       /\ cartCall.target = Selected(Low13)
       /\ cartCall.forwarded = Low13
       /\ cartCall.target = "ROM" /\ (Low13 % (2 ^ 12)) \in DOMAIN romHistory =>
            cartCall.result = romHistory[Low13 % (2 ^ 12)]
       /\ CartFields = [cartCall.before EXCEPT !.lastPeekAddress = Low13,
                                               !.lastReadValue = cartCall.result]
  /\ cartCall.op = "poke" =>
       /\ cartCall.target = (IF Selected(Low13) = "ROM" THEN "none" ELSE Selected(Low13))
       /\ cartCall.forwarded = Low13
       /\ romHistory = cartCall.before.rom
       /\ cartCall.value = (IF cartCall.stuffed
                              THEN cartCall.before.stuff[cartCall.before.nextStuffIndex] % 256
                              ELSE cartCall.given)
       /\ CartFields = [cartCall.before EXCEPT
                          !.nextStuffIndex = IF cartCall.stuffed THEN @ + 1 ELSE @]

\* A poke through a mirror above 0x1FFF reaches the RIOT, with the value the
\* game code stuffed for it.
C20_Witness ==
  /\ cartCall.op = "poke"
  /\ cartCall.address > 8191
  /\ cartCall.target = "RIOT"
  /\ cartCall.stuffed

\* C21: a poke whose address has bit 12 set reaches neither TIA nor RIOT,
\* leaves every ROM byte alone and returns false; a patch with bit 12 set
\* writes its ROM byte and returns true, a patch with bit 12 clear changes
\* nothing and returns false; and whenever the ROM image differs from what it
\* was before the last call, that call was such a patch or an emitter of the
\* game thread.
C21_WriteOutsideDecodeRange ==
  /\ cartCall.op = "poke" =>
        /\ cartCall.result = FALSE
        /\ romHistory = cartCall.before.rom
        /\ AddressBit(cartCall.address, 12) = 1 => cartCall.target = "none"
  /\ cartCall.op = "patch" =>
        IF AddressBit(cartCall.address, 12) = 1
          THEN /\ cartCall.result = TRUE
               /\ romHistory =
                    RomWrite(cartCall.before.rom, cartCall.address % (2 ^ 12), cartCall.given)
          ELSE /\ cartCall.result = FALSE
               /\ CartFields = cartCall.before
  /\ (cartCall.op # "none" /\ romHistory # cartCall.before.rom) =>
        \/ cartCall.op = "patch" /\ AddressBit(cartCall.address, 12) = 1
        \/ cartCall.op \in {"vcsWrite3", "vcsNop2", "vcsJmp3"}

\* A poke with bit 12 set was the last call, after a patch and an emitter had
\* written ROM bytes.
C21_Witness ==
  /\ cartCall.op = "poke"
  /\ AddressBit(cartCall.address, 12) = 1
  /\ cartCall.patches > 0
  /\ cartCall.emits > 0
  /\ DOMAIN romHistory # {4092, 4093}

\* C22: when the palette file cannot be opened or is shorter than 792 bytes,
\* loadUserPalette leaves the three user palettes and myUserPaletteDefined as
\* they were.
C22_UndersizedRejected ==
  (/\ paletteCall.op = "loadUserPalette"
   /\ (~paletteCall.given.exists \/ paletteCall.given.length < 792)) =>
     UserPalette = paletteCall.before

\* A 791-byte file was rejected after an earlier file had been loaded.
C22_Witness ==
  /\ paletteCall.op = "loadUserPalette"
  /\ paletteCall.given.exists
  /\ paletteCall.given.length = 791
  /\ paletteCall.before.defined
  /\ paletteCall.before.ntsc[0] # PixelAt(paletteCall.given, 0)

\* C23: while no user palette is defined, setPalette("user") installs the
\* standard palette of the current display format and togglePalette never moves
\* to 'user' (standard -> z26 -> standard); with a user palette defined
\* togglePalette moves standard -> z26 -> user -> standard.
C23_UserPaletteDisabled ==
  /\ (paletteCall.op = "setPalette" /\ paletteCall.given = "user" /\ ~myUserPaletteDefined) =>
       framePalette = (IF myDisplayFormat \in {"PAL", "PAL60"} THEN "ourPALPalette"
                       ELSE IF myDisplayFormat \in {"SECAM", "SECAM60"} THEN "ourSECAMPalette"
                       ELSE "ourNTSCPalette")
  /\ (paletteCall.op = "togglePalette" /\ ~myUserPaletteDefined) =>
       /\ paletteSetting # "user"
       /\ paletteCall.settingBefore = "standard" => paletteSetting = "z26"
       /\ paletteCall.settingBefore = "z26" => paletteSetting = "standard"
  /\ (paletteCall.op = "togglePalette" /\ myUserPaletteDefined) =>
       /\ paletteCall.settingBefore = "standard" => paletteSetting = "z26"
       /\ paletteCall.settingBefore = "z26" => paletteSetting = "user"
       /\ paletteCall.settingBefore = "user" => paletteSetting = "standard"

\* Without a user palette, a togglePalette has just left z26 in a PAL format.
C23_Witness ==
  /\ paletteCall.op = "togglePalette"
  /\ ~myUserPaletteDefined
  /\ paletteCall.settingBefore = "z26"
  /\ paletteCall.calls >= 2
  /\ framePalette = "ourPALPalette"

\* C24: a collision bit that is set stays set through every advance of the
\* chip, whatever overlaps then and however many frame boundaries it crosses;
\* only the collision-clear strobe clears bits.
C24_StickyLatch ==
  /\ tiaCall.op = "advance" => tiaCall.before \subseteq collisions
  /\ (tiaCall.op # "none" /\ ~(tiaCall.before \subseteq collisions)) => tiaCall.op = "clear"

\* A bit set earlier survived an advance over a frame boundary during which
\* its pair did not overlap.
C24_Witness ==
  /\ tiaCall.op = "advance"
  /\ tiaCall.frames > 0
  /\ \E pair \in tiaCall.before : pair \notin ActivePairs(tiaCall.active) /\ pair \in collisions

\* ------------------------------------------------------------------
\* CartStrongArmDev: the game threads and the emulator thread

\* The calls that store to or load from the shared cartridge state.
GameWrites == {"vcsWrite3", "vcsNop2", "vcsJmp3", "vcsRead4", "vcsJsr6", "EndOverblank"}
EmulatorReads == {"peek", "poke"}

\* C25: a hand-off of a game thread returns only after a RunStrongArmGame call
\* that started after the hand-off had set _runGame to false, and
\* RunStrongArmGame returns only after a hand-off that set _runEmulator to
\* true after the call had set it to false.
C25_HandOffOrdering ==
  /\ cartCall.op = "hand-off returns" => cartCall.rsgSeen
  /\ cartCall.op = "RunStrongArmGame returns" => cartCall.handoffSeen

\* C26: a game thread stores to the cartridge state only while the emulator
\* thread is blocked inside RunStrongArmGame, and the emulator thread's peek
\* and poke run only while every game thread is blocked inside a hand-off.
C26_ExclusiveAccess ==
  /\ cartCall.op \in GameWrites => cartCall.alone
  /\ cartCall.op \in EmulatorReads => cartCall.alone

\* C27: the emulator thread and every game thread are never all blocked in
\* cv.wait, and _runGame and _runEmulator are never both true.
C27_NoDeadlock ==
  /\ ~(emuPc = "wait" /\ \A g \in DOMAIN gamePc : gamePc[g] = "wait")
  /\ ~(runGame /\ runEmulator)

\* C28: every store of an emitter to _romHistory or _stuffHistory uses an
\* index inside the array, and no emitter stores to the reset vector.
C28_IndicesInRange ==
  cartCall.op \in GameWrites =>
     /\ cartCall.wrote \subseteq 0..(HistorySize - 1)
     /\ cartCall.stuffWrote \subseteq 0..(HistorySize - 1)
     /\ cartCall.wrote \cap {ResetVector, ResetVector + 1} = {}

\* C29: a bus write that executes a game thread's next published store carries
\* that store's data byte whatever the CPU supplied; poke substitutes only
\* from an unconsumed entry whose operand address is the last peeked address
\* and then consumes that entry; every other bus write carries the CPU's value.
C29_StuffingInOrder ==
  cartCall.op = "poke" =>
     /\ cartCall.expected # {} => cartCall.expected = {cartCall.value}
     /\ cartCall.expected = {} => cartCall.value = cartCall.given
     /\ cartCall.stuffed =>
          /\ cartCall.before.nextStuffIndex < cartCall.before.stuffCount
          /\ cartCall.before.stuff[cartCall.before.nextStuffIndex] \div (2 ^ 16)
               = cartCall.before.lastPeekAddress
          /\ nextStuffIndex = cartCall.before.nextStuffIndex + 1
     /\ ~cartCall.stuffed => nextStuffIndex = cartCall.before.nextStuffIndex

\* ------------------------------------------------------------------
\* DialogContainer: click counting

\* Whether the press the last call reported follows a press reported with
\* count 1 less than kDoubleClickDelay earlier and less than 3 pixels away in
\* x and in y.
FollowsSingleClick ==
  /\ dialogCall.prev.count = 1
  /\ dialogCall.time - dialogCall.prev.time < kDoubleClickDelay
  /\ Abs(dialogCall.prev.x - dialogCall.x) < 3
  /\ Abs(dialogCall.prev.y - dialogCall.y) < 3

\* C30 (as stated): myLastClick.count is 0, 1 or 2; a press is reported with
\* click count 2 exactly when the previous press was reported with count 1,
\* less than kDoubleClickDelay earlier and less than 3 pixels away in x and in
\* y; every other press is reported with count 1.
C30_ClickCounting ==
  /\ myLastClick.count \in {0, 1, 2}
  /\ dialogCall.op = "press" =>
       dialogCall.reported = (IF FollowsSingleClick THEN 2 ELSE 1)

\* C30 (amended): as above, a press being the second of a double click only
\* if reset() has not run since the previous press.
C30_ClickCountingSinceReset ==
  /\ myLastClick.count \in {0, 1, 2}
  /\ dialogCall.op = "press" =>
       dialogCall.reported =
         (IF FollowsSingleClick /\ ~dialogCall.resetBetween THEN 2 ELSE 1)

\* A press was reported as the second click of a double click, 2 pixels from
\* the first.
C30_Witness ==
  /\ dialogCall.op = "press"
  /\ dialogCall.reported = 2
  /\ dialogCall.prev.x # dialogCall.x

\* ------------------------------------------------------------------
\* DialogContainer: key auto-repeat

\* C31: a key is re-sent by updateTime only after a key-down of that key with
\* no key-up of it and no reset() since, the first time only once myTime
\* exceeds the time of the key-down plus kRepeatInitialDelay and afterwards at
\* most once per kRepeatSustainDelay.
C31_KeyRepeat ==
  keyCall.op = "repeat" =>
     /\ keyCall.was.pressed
     /\ ~keyCall.was.released
     /\ keyCall.time > keyCall.was.time + kRepeatInitialDelay
     /\ keyCall.was.lastRepeat >= 0 =>
          keyCall.time >= keyCall.was.lastRepeat + kRepeatSustainDelay


\* What showMessage arms the counter with: two seconds of whole frames.
TwoSeconds == IF Truncate(frameRate) = 0 THEN 60 ELSE 2 * Truncate(frameRate)

MessageSteps ==
  /\ fbCall.op = "showMessage" /\ fbCall.armed =>
       myMsg.enabled /\ myMsg.counter = TwoSeconds
  /\ fbCall.op = "update" /\ fbCall.state \notin {"NONE", "EMULATION"} /\ ~fbCall.shown =>
       /\ fbCall.before.enabled /\ fbCall.before.counter > 0 =>
            fbCall.drew /\ myMsg.enabled /\ myMsg.counter = fbCall.before.counter - 1
       /\ fbCall.before.counter = 0 =>
            fbCall.forced /\ fbCall.rendered /\ ~myMsg.enabled /\ myMsg.counter = -1
       /\ fbCall.before.counter < 0 /\ ~fbCall.force => ~fbCall.forced

\* C32: showMessage arms the message for two seconds of frames (60 frames at
\* frame rate 0); outside emulation every update() draws the message and counts
\* down while the counter is positive; the update() that finds the counter at 0
\* is forced to a full redraw and disables the message with counter -1, after
\* which the message forces no update(); and every shown message is eventually
\* disabled.
C32_MessageLifetime == []MessageSteps /\ (myMsg.enabled ~> ~myMsg.enabled)

\* An update() outside emulation found a shown message at counter 0 and disabled it.
C32_Witness ==
  /\ fbCall.op = "update" /\ fbCall.state = "OPTIONSMENU"
  /\ fbCall.before.enabled /\ fbCall.before.counter = 0
  /\ ~myMsg.enabled /\ myMsg.counter = -1

\* C33: createDisplay, setFullscreen and changeWindowedVidMode leave the sound
\* mute state as it was before the call, on every return path.
C33_MuteRestored ==
  fbCall.op \in {"createDisplay", "setFullscreen", "changeWindowedVidMode"} =>
    soundMute = fbCall.mute

\* The mode lists a call may select.
ModeLists ==
  {myWindowedModeList} \cup {myFullscreenModeLists[i] : i \in DOMAIN myFullscreenModeLists}

\* C34: every read of VideoModeList::current() finds a non-empty selected list
\* and myIdx inside it, for every base size and desktop size; next() and
\* previous() keep the index inside the list, wrap around at both ends, and
\* next() followed by previous() restores the index.
C34_ModeIndexValid ==
  /\ fbCall.read.list # "none" =>
       /\ fbCall.read.size > 0
       /\ 0 <= fbCall.read.idx /\ fbCall.read.idx < fbCall.read.size
  /\ fbCall.moved.direction = 1 =>
       fbCall.moved.to = (IF fbCall.moved.from = fbCall.moved.size - 1 THEN 0
                          ELSE fbCall.moved.from + 1)
  /\ fbCall.moved.direction = -1 =>
       fbCall.moved.to = (IF fbCall.moved.from = 0 THEN fbCall.moved.size - 1
                          ELSE fbCall.moved.from - 1)
  /\ \A list \in ModeLists :
       ValidIndex(list) =>
         \A a \in next(list) : ValidIndex(a) /\ \A b \in previous(a) : b = list

\* n calls of toggleFormat(+1) in a row.
RECURSIVE ToggledUp(_, _, _, _)
ToggledUp(r, n, frames, sysReset) ==
  IF n = 0 THEN r
  ELSE ToggledUp(toggleFormat(r.s, r.f, 1, frames, sysReset), n - 1, frames, sysReset)

\* C35: myCurrentFormat stays in 0..6; toggleFormat(+1) steps it to
\* (current + 1) mod 7 and toggleFormat(-1) to current - 1, from 0 to 6;
\* toggleFormat(+1) then toggleFormat(-1), and seven toggleFormat(+1), return
\* to the format they started from; toggleFormat with another direction and
\* setFormat with the current format change nothing.
C35_FormatCycling ==
  formatCall.op # "none" =>
    /\ myCurrentFormat \in 0..6
    /\ formatCall.op = "toggleFormat" /\ formatCall.direction = 1 =>
         myCurrentFormat = (formatCall.before.current + 1) % 7
    /\ formatCall.op = "toggleFormat" /\ formatCall.direction = -1 =>
         myCurrentFormat = (IF formatCall.before.current = 0 THEN 6
                            ELSE formatCall.before.current - 1)
    /\ \/ formatCall.op = "toggleFormat" /\ formatCall.direction \notin {-1, 1}
       \/ formatCall.op = "setFormat" /\ formatCall.given = formatCall.before.current
       => /\ myCurrentFormat = formatCall.before.current
          /\ myConsoleTiming = formatCall.before.timing
          /\ displayFormatProperty = formatCall.before.property
          /\ myDisplayFormat = formatCall.before.format
          /\ Emulated(ConsoleFields) = consoleCall.before
    /\ \A frames \in FormatFrames, sysReset \in BOOLEAN :
         LET here == [s |-> ConsoleFields, f |-> FormatFields]
             up == ToggledUp(here, 1, frames, sysReset)
         IN  /\ toggleFormat(up.s, up.f, -1, frames, sysReset).f.current = myCurrentFormat
             /\ ToggledUp(here, 7, frames, sysReset).f.current = myCurrentFormat

\* toggleFormat(+1) wrapped from SECAM60 to auto-detect, and toggleFormat(-1) from
\* auto-detect to SECAM60.
C35_Witness ==
  /\ formatCall.op = "toggleFormat"
  /\ \/ formatCall.direction = 1 /\ formatCall.before.current = 6 /\ myCurrentFormat = 0
     \/ formatCall.direction = -1 /\ formatCall.before.current = 1 /\ myCurrentFormat = 0

\* The console timing of a display format.
TimingOf(displayFormat) ==
  IF displayFormat \in {"NTSC", "NTSC50"} THEN "ntsc"
  ELSE IF displayFormat \in {"PAL", "PAL60"} THEN "pal"
  ELSE "secam"

\* C36: once constructed, myCurrentFormat is 0 exactly when the property
\* Display_Format is 'AUTO' and otherwise the index 1..6 of the forced format,
\* and myConsoleTiming is the timing of myDisplayFormat.
C36_FormatIdentifiesMode ==
  formatCall.op # "none" =>
    /\ myCurrentFormat = 0 <=> displayFormatProperty = "AUTO"
    /\ myCurrentFormat # 0 =>
         myCurrentFormat \in 1..6 /\ displayFormatProperty = FormatNames[myCurrentFormat]
    /\ myConsoleTiming = TimingOf(myDisplayFormat)

====
